---- MODULE Spec2Model ----
(***************************************************************************)
(* Model of combinedBooks (chrisliatas/combined-orderbooks): the order     *)
(* book entity (orderbook.py), the fee catalogue (exchangesData.py) and    *)
(* the combination algebra (comboBooks.py).                                *)
(*                                                                         *)
(* Numbers.  The program computes with Python floats.  The model computes  *)
(* with exact rationals <<n, d>> (d > 0, lowest terms); round(x, k) is     *)
(* Python's round-half-even on the exact value.  str(x), which             *)
(* _getDecimals reads, is modelled on the shortest decimal of x, with the  *)
(* scientific notation Python switches to below 1e-4.                      *)
(*                                                                         *)
(* Strings.  A pair label is a sequence of one-character strings, so that  *)
(* Python's `in`, startswith, endswith and split act on characters.  A     *)
(* venue name is a sequence of tokens (a venue id, "_jnd", "-").           *)
(***************************************************************************)
EXTENDS Integers, Sequences, FiniteSets, TLC

VARIABLES obs, merged, ret, book, calls

vars == <<obs, merged, ret, book, calls>>

-----------------------------------------------------------------------------
(* Exact rational arithmetic standing for float arithmetic.                *)

Abs(x) == IF x < 0 THEN -x ELSE x

Max2(a, b) == IF a >= b THEN a ELSE b

RECURSIVE GCD(_, _)
GCD(a, b) == IF b = 0 THEN a ELSE GCD(b, a % b)

Norm(n, d) ==
    LET g == GCD(Abs(n), d) IN
    IF n = 0 THEN <<0, 1>> ELSE <<n \div g, d \div g>>

I(n) == <<n, 1>>
Q(n, d) == Norm(n, d)

\* over the least common denominator, which keeps the products small
RAdd(a, b) ==
    LET g == GCD(a[2], b[2]) IN
    Norm(a[1] * (b[2] \div g) + b[1] * (a[2] \div g), (a[2] \div g) * b[2])
RSub(a, b) == RAdd(a, <<-b[1], b[2]>>)
\* cross-cancelling first keeps the products small
RMul(a, b) ==
    LET g1 == GCD(Abs(a[1]), b[2])
        g2 == GCD(Abs(b[1]), a[2])
        h1 == IF g1 = 0 THEN 1 ELSE g1
        h2 == IF g2 = 0 THEN 1 ELSE g2
    IN  Norm((a[1] \div h1) * (b[1] \div h2), (a[2] \div h2) * (b[2] \div h1))
RInv(a) == IF a[1] < 0 THEN <<-a[2], -a[1]>> ELSE <<a[2], a[1]>>
RDiv(a, b) == RMul(a, RInv(b))
\* the sign of na/da - nb/db by continued fractions: the integer parts first,
\* then the reciprocals of the fractions the other way round (no products)
RECURSIVE CmpFrac(_, _, _, _)
CmpFrac(na, da, nb, db) ==
    LET fa == na \div da
        fb == nb \div db
        ra == na % da
        rb == nb % db
    IN  IF fa # fb THEN (IF fa < fb THEN -1 ELSE 1)
        ELSE IF ra = 0 /\ rb = 0 THEN 0
        ELSE IF ra = 0 THEN -1
        ELSE IF rb = 0 THEN 1
        ELSE CmpFrac(db, rb, da, ra)
RCmp(a, b) == CmpFrac(a[1], a[2], b[1], b[2])
RLt(a, b) == RCmp(a, b) < 0
RLe(a, b) == RCmp(a, b) <= 0
RGe(a, b) == RLe(b, a)
RGt(a, b) == RLt(b, a)
RZero == <<0, 1>>
ROne == <<1, 1>>

RECURSIVE Pow10(_)
Pow10(k) == IF k = 0 THEN 1 ELSE 10 * Pow10(k - 1)

\* x has at most k decimal places
HasDecimals(x, k) == Pow10(k) % x[2] = 0

\* floor(r * 10^k / d) and the remainder, by long division (0 <= r < d)
RECURSIVE LongDiv(_, _, _, _)
LongDiv(q, r, d, k) ==
    IF k = 0 THEN <<q, r>>
    ELSE LongDiv(q * 10 + ((r * 10) \div d), (r * 10) % d, d, k - 1)

\* Python round(x, k): a value already on the 10^-k grid is returned as is;
\* otherwise the integer part is kept and the fraction is rounded to k digits
PyRound(x, k) ==
    IF HasDecimals(x, k) THEN x
    ELSE LET ip == x[1] \div x[2]
             qr == LongDiv(0, x[1] % x[2], x[2], k)
             q == qr[1]
             up == \/ 2 * qr[2] > x[2]
                   \/ 2 * qr[2] = x[2] /\ q % 2 = 1
         IN  RAdd(I(ip), Norm(IF up THEN q + 1 ELSE q, Pow10(k)))

\* <<floor(a * b / d), (a * b) % d>> for a, b >= 0, digit by digit of b, so that
\* a * b itself is never formed
RECURSIVE MulDiv(_, _, _)
MulDiv(a, b, d) ==
    IF b = 0 THEN <<0, 0>>
    ELSE LET qr == MulDiv(a, b \div 10, d)
             t == qr[2] * 10 + a * (b % 10)
         IN  <<qr[1] * 10 + (t \div d), t % d>>

\* round(x * y, k) for x, y > 0 without forming x * y: 10^k is cancelled
\* against the denominators, then the numerators are multiplied and divided
\* in one pass
PyRoundMul(x, y, k) ==
    LET g1 == GCD(Pow10(k), x[2])
        g2 == GCD(Pow10(k) \div g1, y[2])
        scale == (Pow10(k) \div g1) \div g2
        dx0 == x[2] \div g1
        dy0 == y[2] \div g2
        c1 == GCD(x[1], dy0)
        c2 == GCD(y[1], dx0)
        d == (dx0 \div c2) * (dy0 \div c1)
        qr1 == MulDiv(x[1] \div c1, y[1] \div c2, d)
        qr2 == MulDiv(qr1[2], scale, d)
        odd == ((qr1[1] % 2) * (scale % 2) + qr2[1]) % 2 = 1
        up == \/ 2 * qr2[2] > d
              \/ 2 * qr2[2] = d /\ odd
    IN  RAdd(Norm(qr1[1], g1 * g2), Norm(IF up THEN qr2[1] + 1 ELSE qr2[1], Pow10(k)))

RECURSIVE SumR(_)
SumR(s) == IF s = <<>> THEN RZero ELSE RAdd(Head(s), SumR(Tail(s)))

-----------------------------------------------------------------------------
(* str(float), as far as _getDecimals reads it.                            *)

MaxDecimals == 9

\* the number of decimal places of the shortest decimal of x
TrueDecimals(x) == CHOOSE k \in 0..MaxDecimals :
    /\ HasDecimals(x, k)
    /\ \A j \in 0..(k - 1) : ~HasDecimals(x, j)

RECURSIVE NumDigits(_)
NumDigits(m) == IF m < 10 THEN 1 ELSE 1 + NumDigits(m \div 10)

\* one pass of the loop body of _getDecimals for the value f_var:
\* len(str(f_var).split(".")[1]), or on IndexError the exponent of "1e-08"
StrDecimals(x) ==
    IF x[1] = 0 THEN 1
    ELSE IF RGe(x, <<1, 10000>>) THEN Max2(1, TrueDecimals(x))
    ELSE LET e == TrueDecimals(x)
             m == x[1] * (Pow10(e) \div x[2])
             k == NumDigits(m)
         IN  IF k = 1 THEN e            \* "1e-08": no ".", int("08")
             ELSE (k - 1) + 4           \* "1.5e-08" -> len("5e-08")

\* utils.round_digits for num = x * y (x, y > 0): the tests on num are made on
\* x against 1/y and (1/100)/y
round_digitsMul(precision_a, precision_b, x, y) ==
    LET init_precision == Max2(precision_a, precision_b)
        precision == IF RLt(x, RInv(y)) /\ RGt(x, RDiv(<<1, 100>>, y)) THEN 5
                     ELSE IF RLe(x, RDiv(<<1, 100>>, y)) THEN 8
                     ELSE 2
    IN  Max2(precision, init_precision)

\* utils.round_digits
round_digits(precision_a, precision_b, num) ==
    LET init_precision == Max2(precision_a, precision_b)
        precision == IF RLt(num, ROne) /\ RGt(num, <<1, 100>>) THEN 5
                     ELSE IF RLe(num, <<1, 100>>) THEN 8
                     ELSE 2
    IN  Max2(precision, init_precision)

-----------------------------------------------------------------------------
(* Strings.                                                                *)

Dash == <<"-">>
Comma == <<",">>

StartsWith(p, t) == Len(t) <= Len(p) /\ SubSeq(p, 1, Len(t)) = t
EndsWith(p, t) == Len(t) <= Len(p) /\ SubSeq(p, Len(p) - Len(t) + 1, Len(p)) = t
\* Python's `t in p` on strings
Contains(t, p) == \E i \in 1..(Len(p) - Len(t) + 1) : SubSeq(p, i, i + Len(t) - 1) = t

\* p.split("-") for a label with one dash
DashAt(p) == CHOOSE i \in 1..Len(p) : p[i] = "-" /\ \A j \in 1..(i - 1) : p[j] # "-"
SplitPair(p) == <<SubSeq(p, 1, DashAt(p) - 1), SubSeq(p, DashAt(p) + 1, Len(p))>>
MkPair(b, q) == b \o Dash \o q
\* "-".join(pair.split("-")[::-1])
ReversePair(p) == MkPair(SplitPair(p)[2], SplitPair(p)[1])

RECURSIVE JoinStr(_, _)
JoinStr(sep, s) ==
    IF s = <<>> THEN <<>>
    ELSE IF Len(s) = 1 THEN s[1]
    ELSE s[1] \o sep \o JoinStr(sep, Tail(s))

RECURSIVE Flatten(_)
Flatten(s) == IF s = <<>> THEN <<>> ELSE Head(s) \o Flatten(Tail(s))

Range(s) == {s[i] : i \in DOMAIN s}

-----------------------------------------------------------------------------
(* Currencies, pair labels and venue names.                                *)

ETH == <<"E", "T", "H">>
BTC == <<"B", "T", "C">>
WBTC == <<"W", "B", "T", "C">>
WETH == <<"W", "E", "T", "H">>
DAI == <<"D", "A", "I">>
USDT == <<"U", "S", "D", "T">>
USDC == <<"U", "S", "D", "C">>
BUSD == <<"B", "U", "S", "D">>
KNC == <<"K", "N", "C">>

binance == <<"binance">>
okx == <<"okx">>
coinbase == <<"coinbase">>
mergedExch == <<"merged">>

\* f"{exch}_jnd"
Jnd(exch) == exch \o <<"_jnd">>
\* exch.endswith("_jnd")
IsJnd(exch) == exch # <<>> /\ exch[Len(exch)] = "_jnd"
\* exch.split("_")[0]: the name up to its first underscore
RECURSIVE SplitUnderscore0(_)
SplitUnderscore0(exch) ==
    IF exch = <<>> \/ Head(exch) \in {"_jnd", "_joined"} THEN <<>>
    ELSE <<Head(exch)>> \o SplitUnderscore0(Tail(exch))
\* f"{exch}_joined", the suffix exchFees looks for
JoinedName(exch) == exch \o <<"_joined">>
\* "-".join(exchanges)
JoinExch(exchanges) == JoinStr(Dash, exchanges)

-----------------------------------------------------------------------------
(* exchangesData.ExchangesConstants                                        *)

EXCHANGES == <<binance, okx, coinbase>>

VALID_QUOTES == <<DAI, USDT, BUSD, USDC, BTC, WBTC, WETH, ETH>>

\* the configured base pairs (base_pairs argument; the default seven and the
\* component pairs of the synthesis examples)
BASE_PAIRS == <<MkPair(ETH, USDC), MkPair(USDC, USDT), MkPair(BTC, USDC),
                MkPair(ETH, BTC), MkPair(ETH, USDT), MkPair(ETH, DAI),
                MkPair(BTC, DAI), MkPair(KNC, USDT), MkPair(KNC, BTC),
                MkPair(WBTC, USDT), MkPair(BTC, USDT)>>

\* base pairs whose venue symbol is in BINANCE_STABLES (["USDCUSDT"])
BINANCE_STABLES == {MkPair(USDC, USDT)}
\* base pairs whose Coinbase product is an fx_stablecoin product (USDT-USD)
COINBASE_STABLES == {MkPair(USDC, USDT)}

\* EXCH_FEES
FeeBinanceSpot == Q(405, 1000000)
FeeBinanceStables == RZero
FeeOkx == Q(4, 10000)
FeeCoinbaseSpot == Q(1, 1000)
FeeCoinbaseStables == Q(1, 100000)

\* the label exchFees looks up: reversed when inverse
FeePair(pair, inverse) == IF inverse /\ pair # <<>> THEN ReversePair(pair) ELSE pair

\* exchFees: if "_joined" in exch: exch = exch.split("_")[0]
FeeVenue(exch) ==
    IF \E k \in DOMAIN exch : exch[k] = "_joined" THEN SplitUnderscore0(exch) ELSE exch

\* exchFees raises: get_exch_pair's list.index (ValueError) for a pair that is
\* no base pair, EXCH_DATA[exch] (KeyError) for a name that is no venue
exchFeesRaises(exch, pair, inverse) ==
    LET p == FeePair(pair, inverse)
        e == FeeVenue(exch)
    IN  IF e \in {coinbase, binance}
        THEN p # <<>> /\ p \notin Range(BASE_PAIRS)
        ELSE e \notin Range(EXCHANGES)

exchFees(exch, pair, inverse) ==
    LET p == FeePair(pair, inverse)
        e == FeeVenue(exch)
    IN  CASE e = coinbase ->
                IF p # <<>> /\ p \in COINBASE_STABLES
                THEN FeeCoinbaseStables ELSE FeeCoinbaseSpot
          [] e = binance ->
                IF p # <<>> /\ p \in BINANCE_STABLES
                THEN FeeBinanceStables ELSE FeeBinanceSpot
          [] e = okx -> FeeOkx

\* comboFees: the sum over the hops
comboFeesRaises(exch_pair) ==
    \E i \in DOMAIN exch_pair : exchFeesRaises(exch_pair[i][1], exch_pair[i][2], FALSE)
comboFees(exch_pair) ==
    SumR([i \in DOMAIN exch_pair |-> exchFees(exch_pair[i][1], exch_pair[i][2], FALSE)])

-----------------------------------------------------------------------------
(* orderbook.py: entries, cursors, the book.                               *)

\* OrderBookEntry
Entry(price, size, exch, debug) ==
    [price |-> price, size |-> size, exch |-> exch, debug |-> debug]

\* DebugOrderBookEntry
DebugEntry(price, size, exch, fees, pair, side) ==
    [price |-> price, size |-> size, exch |-> exch, fees |-> fees,
     pair |-> pair, side |-> side]

\* WapLevelsEntry
WapEntry(price, size, exch, wap, amt) ==
    [price |-> price, size |-> size, exch |-> exch, wap |-> wap, amt |-> amt]

\* BookLevelIdxAmt(), BookLevelsState()
IdxAmt0 == [idx |-> 0, qty |-> RZero]
LevelsState0 == [asks |-> IdxAmt0, bids |-> IdxAmt0]

TakerSide(side) == IF side = "asks" THEN "BUY" ELSE "SELL"

\* list.sort(key=price): stable, ascending
RECURSIVE InsertAsc(_, _)
InsertAsc(s, x) ==
    IF s = <<>> THEN <<x>>
    ELSE IF RLe(Head(s).price, x.price) THEN <<Head(s)>> \o InsertAsc(Tail(s), x)
    ELSE <<x>> \o s
RECURSIVE SortAsc(_)
SortAsc(s) == IF s = <<>> THEN <<>> ELSE InsertAsc(SortAsc(SubSeq(s, 1, Len(s) - 1)), s[Len(s)])

\* list.sort(key=price, reverse=True): stable, descending
RECURSIVE InsertDesc(_, _)
InsertDesc(s, x) ==
    IF s = <<>> THEN <<x>>
    ELSE IF RGe(Head(s).price, x.price) THEN <<Head(s)>> \o InsertDesc(Tail(s), x)
    ELSE <<x>> \o s
RECURSIVE SortDesc(_)
SortDesc(s) == IF s = <<>> THEN <<>> ELSE InsertDesc(SortDesc(SubSeq(s, 1, Len(s) - 1)), s[Len(s)])

\* a book that keeps its sides in the order given, and OrderBookItem.__init__:
\* both sides sorted, cursors fresh
OrderBookItemUnsorted(exchange, pair, ts, bids, asks) ==
    [exch |-> exchange, pair |-> pair, ts |-> ts, bids |-> bids, asks |-> asks,
     quote_state |-> LevelsState0, base_state |-> LevelsState0]
OrderBookItem(exchange, pair, ts, bids, asks) ==
    [exch |-> exchange, pair |-> pair, ts |-> ts,
     bids |-> SortDesc(bids), asks |-> SortAsc(asks),
     quote_state |-> LevelsState0, base_state |-> LevelsState0]

Side(b, side) == IF side = "bids" THEN b.bids ELSE b.asks

\* copy_self: a new book on deep copies of the sides
copy_self(b) == OrderBookItem(b.exch, b.pair, b.ts, b.bids, b.asks)

\* _getDecimals
RECURSIVE DecimalsLoop(_, _, _)
DecimalsLoop(levels, isPrice, deci) ==
    IF levels = <<>> THEN deci
    ELSE DecimalsLoop(Tail(levels), isPrice,
            Max2(deci, StrDecimals(IF isPrice THEN Head(levels).price
                                   ELSE Head(levels).size)))
getDecimals(b, side, isPrice) == DecimalsLoop(Side(b, side), isPrice, 1)

lenPrcDecimals(b) == Max2(getDecimals(b, "bids", TRUE), getDecimals(b, "asks", TRUE))
lenSizeDecimals(b) == Max2(getDecimals(b, "bids", FALSE), getDecimals(b, "asks", FALSE))

-----------------------------------------------------------------------------
(* Fee-adjusted views.                                                     *)

\* sideAfterFees raises when a level's fee lookup raises
sideAfterFeesRaises(b, side, inverse) ==
    \E i \in DOMAIN Side(b, side) : exchFeesRaises(Side(b, side)[i].exch, b.pair, inverse)

\* the loop body of sideAfterFees for level i
feeEntry(b, i, sign, side, add_fee, inverse, deci) ==
    LET new_fee == RAdd(exchFees(i.exch, b.pair, inverse), add_fee)
        factor == RAdd(ROne, RMul(I(sign), new_fee))
        prc == PyRoundMul(i.price, factor, round_digitsMul(deci, 0, i.price, factor))
        debug == IF add_fee # RZero
                 THEN Append(i.debug, DebugEntry(i.price, i.size, i.exch, new_fee,
                                                  b.pair, TakerSide(side)))
                 ELSE i.debug
    IN  Entry(prc, i.size, i.exch, debug)

sideAfterFees(b, side, add_fee, inverse) ==
    LET sign == IF side = "bids" THEN -1 ELSE 1
        deci == lenPrcDecimals(b)
        levels == Side(b, side)
    IN  [k \in DOMAIN levels |-> feeEntry(b, levels[k], sign, side, add_fee, inverse, deci)]

bidsAfterFees(b, add_fee, inverse) == sideAfterFees(b, "bids", add_fee, inverse)
asksAfterFees(b, add_fee, inverse) == sideAfterFees(b, "asks", add_fee, inverse)

-----------------------------------------------------------------------------
(* WAP traversal with cursors.                                             *)

\* what is left of a level after the part the cursor has consumed
lvlBaseQtyNoCursor(lvl, ignore_size) == lvl.size
lvlBaseQty(lvl, ignore_size) == RSub(lvl.size, ignore_size)

\* the entry of a level consumed in part by a base quantity
basePartialEntryFullAmt(lvl, qty) ==
    WapEntry(lvl.price, qty, lvl.exch, lvl.price, RMul(lvl.size, lvl.price))
basePartialEntry(lvl, qty) ==
    WapEntry(lvl.price, qty, lvl.exch, lvl.price, RMul(qty, lvl.price))

\* the loop of wap_base_levels from level k (1-based) on: st is the cursor
RECURSIVE WapBaseLoop(_, _, _, _, _, _)
WapBaseLoop(levels, k, qty, ignore_size, res, st) ==
    IF k > Len(levels) THEN [res |-> res, st |-> st]
    ELSE LET lvl == levels[k]
             lvl_base_qty == lvlBaseQty(lvl, ignore_size)
             lvl_quote_amt == RMul(lvl_base_qty, lvl.price)
         IN  IF RGe(qty, lvl_base_qty)
             THEN WapBaseLoop(levels, k + 1, RSub(qty, lvl_base_qty), RZero,
                      Append(res, WapEntry(lvl.price, lvl_base_qty, lvl.exch,
                                           lvl.price, lvl_quote_amt)),
                      [idx |-> st.idx + 1, qty |-> RZero])
             ELSE [res |-> Append(res, basePartialEntry(lvl, qty)),
                   st |-> [idx |-> st.idx, qty |-> RAdd(ignore_size, qty)]]

\* the levels a traversal walks: the side, fee-adjusted when incl_fees
WapLevels(b, side, incl_fees) ==
    IF incl_fees THEN sideAfterFees(b, side, RZero, FALSE) ELSE Side(b, side)

\* a traversal that moves the cursors of both denominations on its side, and
\* wap_base_levels: [res: the entries returned, book: the book with its cursor moved]
wap_base_levelsBothStates(b, base_qty, side, incl_fees) ==
    LET state == b.base_state[side]
        r == WapBaseLoop(WapLevels(b, side, incl_fees), state.idx + 1, base_qty,
                         state.qty, <<>>, state)
    IN  [res |-> r.res,
         book |-> [b EXCEPT !.base_state = [@ EXCEPT ![side] = r.st],
                            !.quote_state = [@ EXCEPT ![side] = r.st]]]
wap_base_levels(b, base_qty, side, incl_fees) ==
    LET state == b.base_state[side]
        r == WapBaseLoop(WapLevels(b, side, incl_fees), state.idx + 1, base_qty,
                         state.qty, <<>>, state)
    IN  [res |-> r.res,
         book |-> [b EXCEPT !.base_state = [@ EXCEPT ![side] = r.st]]]

RECURSIVE WapQuoteLoop(_, _, _, _, _, _)
WapQuoteLoop(levels, k, qty, ignore_size, res, st) ==
    IF k > Len(levels) THEN [res |-> res, st |-> st]
    ELSE LET lvl == levels[k]
             lvl_base_qty == lvlBaseQty(lvl, ignore_size)
             lvl_quote_amt == RMul(lvl_base_qty, lvl.price)
         IN  IF RGe(qty, lvl_quote_amt)
             THEN WapQuoteLoop(levels, k + 1, RSub(qty, lvl_quote_amt), RZero,
                      Append(res, WapEntry(lvl.price, lvl_base_qty, lvl.exch,
                                           lvl.price, lvl_quote_amt)),
                      [idx |-> st.idx + 1, qty |-> RZero])
             ELSE [res |-> Append(res, WapEntry(lvl.price, RDiv(qty, lvl.price),
                                                lvl.exch, lvl.price, qty)),
                   st |-> [idx |-> st.idx,
                           qty |-> RAdd(ignore_size, RDiv(qty, lvl.price))]]

\* a traversal that advances its cursor by the number of entries it returned, and
\* wap_quote_levels
wap_quote_levelsCountsEntries(b, quote_qty, side, incl_fees) ==
    LET state == b.quote_state[side]
        r == WapQuoteLoop(WapLevels(b, side, incl_fees), state.idx + 1, quote_qty,
                          state.qty, <<>>, state)
    IN  [res |-> r.res,
         book |-> [b EXCEPT !.quote_state =
                      [@ EXCEPT ![side] = [idx |-> state.idx + Len(r.res),
                                           qty |-> r.st.qty]]]]
wap_quote_levels(b, quote_qty, side, incl_fees) ==
    LET state == b.quote_state[side]
        r == WapQuoteLoop(WapLevels(b, side, incl_fees), state.idx + 1, quote_qty,
                          state.qty, <<>>, state)
    IN  [res |-> r.res,
         book |-> [b EXCEPT !.quote_state = [@ EXCEPT ![side] = r.st]]]

reset_wap_state(b) ==
    [b EXCEPT !.quote_state = LevelsState0, !.base_state = LevelsState0]

-----------------------------------------------------------------------------
(* Aggregation and inversion.                                              *)

RECURSIVE AggLoop(_, _, _, _)
AggLoop(levels, res, deci, debug) ==
    IF levels = <<>> THEN res
    ELSE LET i == Head(levels)
             n == Len(res)
         IN  IF res = <<>> \/ res[n].price # i.price
             THEN AggLoop(Tail(levels), Append(res, Entry(i.price, i.size, i.exch, i.debug)),
                          deci, debug)
             ELSE LET sz == RAdd(res[n].size, i.size)
                      rsz == PyRound(sz, round_digits(deci, deci, sz))
                      dbg == IF debug THEN res[n].debug \o i.debug ELSE res[n].debug
                  IN  AggLoop(Tail(levels),
                              [res EXCEPT ![n] = Entry(res[n].price, rsz, res[n].exch, dbg)],
                              deci, debug)

aggregateSideLevels(b, side, debug) ==
    AggLoop(Side(b, side), <<>>, lenSizeDecimals(b), debug)

aggregateLevels(b, debug) ==
    [b EXCEPT !.bids = aggregateSideLevels(b, "bids", debug),
              !.asks = aggregateSideLevels(b, "asks", debug)]

\* OrderBookEntry.inverse raises only through the debug entry's fee lookup
inverseRaises(e, pair, debug) == debug /\ exchFeesRaises(e.exch, pair, TRUE)

\* OrderBookEntry.inverse
inverse(e, pair, side, deciP, deciS, debug) ==
    LET dbg == IF debug /\ pair # <<>> /\ side # ""
               THEN <<DebugEntry(e.price, e.size, e.exch, exchFees(e.exch, pair, TRUE),
                                 pair, TakerSide(side))>>
               ELSE e.debug
        price0 == RInv(e.price)
        price == PyRound(price0, round_digits(deciP, 0, price0))
        size == PyRoundMul(e.size, e.price, round_digitsMul(deciS, 0, e.size, e.price))
    IN  Entry(price, size, e.exch, dbg)

inverseBookRaises(b, debug) ==
    \E side \in {"bids", "asks"} : \E k \in DOMAIN Side(b, side) :
        inverseRaises(Side(b, side)[k], b.pair, debug)

\* OrderBookItem.inverseBook
inverseBook(b, debug) ==
    LET pair == ReversePair(b.pair)
        dS == lenSizeDecimals(b)
        dP == lenPrcDecimals(b)
        bids == [k \in DOMAIN b.bids |-> inverse(b.bids[k], b.pair, "bids", dS, dP, debug)]
        asks == [k \in DOMAIN b.asks |-> inverse(b.asks[k], b.pair, "asks", dS, dP, debug)]
    IN  OrderBookItem(b.exch, pair, b.ts, bids, asks)

-----------------------------------------------------------------------------
(* SpecWap: one book, its four cursors, and a log of the traversal calls.  *)

MaxLevels == 2
MaxCalls == 2

Sides == {"asks", "bids"}

WapPrices == {I(3), I(4)}
WapSizes == {I(1), I(2)}
WapQtys == {I(1), I(2), I(3)}

IsAsc(s) == \A k \in 1..(Len(s) - 1) : RLe(s[k].price, s[k + 1].price)
IsDesc(s) == \A k \in 1..(Len(s) - 1) : RGe(s[k].price, s[k + 1].price)
IsStrictAsc(s) == \A k \in 1..(Len(s) - 1) : RLt(s[k].price, s[k + 1].price)
IsStrictDesc(s) == \A k \in 1..(Len(s) - 1) : RGt(s[k].price, s[k + 1].price)

\* the ask ladders of at most MaxLevels levels of one venue
Ladders(prices, sizes, exch) ==
    LET lv == {Entry(p, z, exch, <<>>) : p \in prices, z \in sizes}
    IN  {l \in UNION {[1..n -> lv] : n \in 1..MaxLevels} : IsAsc(l)}

\* the bids two price units under the asks
BidsUnder(asks, gap) ==
    [k \in DOMAIN asks |-> [asks[k] EXCEPT !.price = RSub(@, gap)]]

WapBooks ==
    {OrderBookItem(okx, MkPair(ETH, USDT), 1, BidsUnder(l, I(2)), l) :
        l \in Ladders(WapPrices, WapSizes, okx)}

InitWap ==
    /\ book \in WapBooks
    /\ calls = <<>>
    /\ ret = <<>>
    /\ obs = <<>>
    /\ merged = <<>>

\* a call of wap_base_levels(qty, side) on the book
WapBaseLevelsCall(qty, side) ==
    LET r == wap_base_levels(book, qty, side, FALSE) IN
    /\ Len(calls) < MaxCalls
    /\ book' = r.book
    /\ ret' = r.res
    /\ calls' = Append(calls, [op |-> "wap_base_levels", qty |-> qty, side |-> side,
                               before |-> book.base_state[side],
                               after |-> r.book.base_state[side], res |-> r.res])
    /\ UNCHANGED <<obs, merged>>

\* a call of wap_quote_levels(qty, side) on the book
WapQuoteLevelsCall(qty, side) ==
    LET r == wap_quote_levels(book, qty, side, FALSE) IN
    /\ Len(calls) < MaxCalls
    /\ book' = r.book
    /\ ret' = r.res
    /\ calls' = Append(calls, [op |-> "wap_quote_levels", qty |-> qty, side |-> side,
                               before |-> book.quote_state[side],
                               after |-> r.book.quote_state[side], res |-> r.res])
    /\ UNCHANGED <<obs, merged>>

\* a call of reset_wap_state() on the book
ResetWapStateCall ==
    /\ Len(calls) < MaxCalls
    /\ book' = reset_wap_state(book)
    /\ ret' = <<>>
    /\ calls' = Append(calls, [op |-> "reset_wap_state", qty |-> RZero, side |-> "",
                               before |-> IdxAmt0, after |-> IdxAmt0, res |-> <<>>])
    /\ UNCHANGED <<obs, merged>>

NextWap ==
    \/ \E qty \in WapQtys, side \in Sides : WapBaseLevelsCall(qty, side)
    \/ \E qty \in WapQtys, side \in Sides : WapQuoteLevelsCall(qty, side)
    \/ ResetWapStateCall

SpecWap == InitWap /\ [][NextWap]_vars

\* the entries of two sequential calls put together: when the first call stopped
\* inside a level, its last entry and the first entry of the second call are the
\* two parts of that level
StoppedInside(c) == Len(c.res) = (c.after.idx - c.before.idx) + 1
Glue(c1, c2) ==
    IF StoppedInside(c1) /\ c2.res # <<>>
    THEN LET a == c1.res[Len(c1.res)]
             b == c2.res[1]
         IN  SubSeq(c1.res, 1, Len(c1.res) - 1)
             \o <<WapEntry(a.price, RAdd(a.size, b.size), a.exch, a.wap, RAdd(a.amt, b.amt))>>
             \o Tail(c2.res)
    ELSE c1.res \o c2.res

\* two base calls in a row on one side, the first from a reset cursor
SequentialBase(k) ==
    /\ k + 1 <= Len(calls)
    /\ calls[k].op = "wap_base_levels" /\ calls[k + 1].op = "wap_base_levels"
    /\ calls[k].side = calls[k + 1].side
    /\ calls[k].before = IdxAmt0

\* C4 (cursor resumability): wap_base_levels(q1) then wap_base_levels(q2) on one
\* side, from a reset cursor, return together the entries of the single call
\* wap_base_levels(q1 + q2), the level the first call stopped in being split in
\* two entries at the cumulative quantity q1.
C4_CursorResumable ==
    \A k \in 1..Len(calls) :
        SequentialBase(k) =>
            Glue(calls[k], calls[k + 1])
                = wap_base_levels(reset_wap_state(book),
                                  RAdd(calls[k].qty, calls[k + 1].qty),
                                  calls[k].side, FALSE).res

\* the first call ends exactly at a level boundary, the second goes on
C4_Witness ==
    \E k \in 1..Len(calls) :
        /\ SequentialBase(k)
        /\ calls[k].qty = Side(book, calls[k].side)[1].size
        /\ Len(Side(book, calls[k].side)) > 1
        /\ Len(calls[k + 1].res) > 0

\* the depth left after a cursor
RECURSIVE TotSize(_)
TotSize(levels) == IF levels = <<>> THEN RZero ELSE RAdd(Head(levels).size, TotSize(Tail(levels)))
Remaining(levels, st) ==
    RSub(TotSize(SubSeq(levels, st.idx + 1, Len(levels))), st.qty)

InDepth(c) ==
    /\ c.op = "wap_base_levels"
    /\ RGt(c.qty, RZero)
    /\ RLe(c.qty, Remaining(Side(book, c.side), c.before))

\* C5 (WAP consistency): a wap_base_levels(Q) call from any cursor, 0 < Q <= the
\* depth left, returns entries whose sizes sum to Q and whose amt sum to the sum
\* of price * size over the entries.
C5_WapConsistency ==
    \A k \in 1..Len(calls) :
        InDepth(calls[k]) =>
            /\ SumR([j \in DOMAIN calls[k].res |-> calls[k].res[j].size]) = calls[k].qty
            /\ SumR([j \in DOMAIN calls[k].res |-> calls[k].res[j].amt])
                 = SumR([j \in DOMAIN calls[k].res |->
                            RMul(calls[k].res[j].price, calls[k].res[j].size)])

\* a call from a cursor inside a level that crosses into the next level
C5_Witness ==
    \E k \in 1..Len(calls) :
        /\ InDepth(calls[k])
        /\ calls[k].before.qty # RZero
        /\ Len(calls[k].res) > 1

-----------------------------------------------------------------------------
(* SpecBook: one venue book; its fee-adjusted views and its inversions.    *)

BookPrices == {Q(1, 200), Q(1, 2), I(1), I(3000), I(30000)}
BookSizes == {I(1), I(2)}
BookPairs == {MkPair(ETH, USDT), MkPair(USDC, USDT)}

\* the bids one tick under the asks
Tick(p) == IF RGe(p, Q(1, 2)) THEN Q(1, 10) ELSE Q(1, 1000)
BidsUnderTick(asks) ==
    [k \in DOMAIN asks |-> [asks[k] EXCEPT !.price = RSub(@, Tick(@))]]

\* the book of scenario S1: ETH-USDT, asks [(3000, 1)], bids [(2999, 1)], fee 0.001
S1Book ==
    OrderBookItem(coinbase, MkPair(ETH, USDT), 1,
                  <<Entry(I(2999), I(1), coinbase, <<>>)>>,
                  <<Entry(I(3000), I(1), coinbase, <<>>)>>)

BookInputs ==
    UNION {{OrderBookItem(e, p, 1, BidsUnderTick(l), l) :
                p \in BookPairs, l \in Ladders(BookPrices, BookSizes, e)} :
           e \in Range(EXCHANGES)}
    \cup {S1Book}

InitBook ==
    /\ book \in BookInputs
    /\ calls = <<>>
    /\ ret = <<>>
    /\ obs = <<>>
    /\ merged = <<>>

\* a call of asksAfterFees / bidsAfterFees (add_fee = 0) on the book
SideAfterFeesCall(side, inv) ==
    /\ ret' = IF sideAfterFeesRaises(book, side, inv)
              THEN [op |-> "sideAfterFees", side |-> side, of |-> book, inverse |-> inv,
                    raised |-> TRUE, res |-> <<>>]
              ELSE [op |-> "sideAfterFees", side |-> side, of |-> book, inverse |-> inv,
                    raised |-> FALSE, res |-> sideAfterFees(book, side, RZero, inv)]
    /\ UNCHANGED <<book, calls, obs, merged>>

Inversions == Len(SelectSeq(calls, LAMBDA c : c.op = "inverseBook"))

\* a call of inverseBook(): the book under study becomes the inverted one
\* (at most the two inversions of a round trip)
InverseBookCall ==
    /\ Inversions < 2
    /\ book' = inverseBook(book, FALSE)
    /\ calls' = Append(calls, [op |-> "inverseBook", before |-> book])
    /\ ret' = <<>>
    /\ UNCHANGED <<obs, merged>>

\* a call of aggregateLevels() on the book
AggregateLevelsCall ==
    /\ book' = aggregateLevels(book, FALSE)
    /\ book' # book
    /\ calls' = Append(calls, [op |-> "aggregateLevels", before |-> book])
    /\ ret' = <<>>
    /\ UNCHANGED <<obs, merged>>

NextBook ==
    \/ \E side \in Sides, inv \in BOOLEAN : SideAfterFeesCall(side, inv)
    \/ InverseBookCall
    \/ AggregateLevelsCall

SpecBook == InitBook /\ [][NextBook]_vars

RAbs(x) == <<Abs(x[1]), x[2]>>
Within(a, b, tol) == RLe(RAbs(RSub(a, b)), tol)

\* the book is the inversion of a venue book
InvertedOnce == Len(calls) = 1 /\ calls[1].op = "inverseBook"

\* level k of `inv` is the inverse of level k of `src`: size' = size * price,
\* price' = 1 / price up to the rounding of the price
InverseOf(inv, src) ==
    /\ Len(inv) = Len(src)
    /\ \A k \in DOMAIN inv :
        /\ inv[k].size = RMul(src[k].size, src[k].price)
        /\ Within(inv[k].price, RInv(src[k].price), Q(1, 200))

\* C8 (inverse book sides, S2), the original claim: the inverted book's asks are
\* the inverses of the source bids, its bids the inverses of the source asks.
C8_InverseSwapsSides ==
    InvertedOnce =>
        /\ InverseOf(book.asks, calls[1].before.bids)
        /\ InverseOf(book.bids, calls[1].before.asks)

\* C9 (fee monotonicity), the original claim: a fee-adjusted ask is not under the
\* ask, a fee-adjusted bid not over the bid, and the price is the original one
\* exactly when the fee is 0.
C9_FeeMonotone ==
    (ret # <<>> /\ ret.op = "sideAfterFees" /\ ~ret.raised) =>
        \A k \in DOMAIN ret.res :
            LET orig == Side(ret.of, ret.side)[k]
                fee == exchFees(orig.exch, ret.of.pair, ret.inverse)
            IN  /\ ret.side = "asks" => RGe(ret.res[k].price, orig.price)
                /\ ret.side = "bids" => RLe(ret.res[k].price, orig.price)
                /\ (ret.res[k].price = orig.price) <=> (fee = RZero)

\* the book is the second inversion of a venue book
RoundTrip ==
    Len(calls) = 2 /\ calls[1].op = "inverseBook" /\ calls[2].op = "inverseBook"

\* 10^-k
Tol(k) == Q(1, Pow10(k))

SideAgrees(a, b, tolP, tolS) ==
    /\ Len(a) = Len(b)
    /\ \A k \in DOMAIN a :
        /\ Within(a[k].price, b[k].price, tolP)
        /\ Within(a[k].size, b[k].size, tolS)

\* C10 (inverse round trip), the original claim: the second inversion has the pair
\* of B, prices within 10^-lenPrcDecimals(B) and sizes within
\* 10^-lenSizeDecimals(B) of B's, level by level.
C10_InverseRoundTrip ==
    RoundTrip =>
        LET B == calls[1].before
            tolP == Tol(lenPrcDecimals(B))
            tolS == Tol(lenSizeDecimals(B))
        IN  /\ book.pair = B.pair
            /\ SideAgrees(book.asks, B.asks, tolP, tolS)
            /\ SideAgrees(book.bids, B.bids, tolP, tolS)

-----------------------------------------------------------------------------
(* comboBooks.py: the books of all venues, joins and cross-venue merges.   *)

\* obs is a dict in insertion order: a sequence of [name, books]
obsKeys(o) == [k \in DOMAIN o |-> o[k].name]
obsHas(o, exch) == \E k \in DOMAIN o : o[k].name = exch
obsGet(o, exch) == o[CHOOSE k \in DOMAIN o : o[k].name = exch].books
\* o[exch] = books
obsSet(o, exch, books) ==
    IF obsHas(o, exch)
    THEN [k \in DOMAIN o |-> IF o[k].name = exch THEN [o[k] EXCEPT !.books = books] ELSE o[k]]
    ELSE Append(o, [name |-> exch, books |-> books])
\* o | m
RECURSIVE obsUnion(_, _)
obsUnion(o, m) ==
    IF m = <<>> THEN o ELSE obsUnion(obsSet(o, Head(m).name, Head(m).books), Tail(m))

\* the orders in which list(set(...)) may enumerate the set S
Perms(S) == {s \in [1..Cardinality(S) -> S] : Range(s) = S}

\* zip(a, b)
Zip(a, b) == [k \in 1..(IF Len(a) < Len(b) THEN Len(a) ELSE Len(b)) |-> <<a[k], b[k]>>]

\* find_pairs: the known pairs that hold both currencies of the wanted pair
existingPairs(wanted_pair, known_pairs) ==
    SelectSeq(known_pairs, LAMBDA p : Contains(SplitPair(wanted_pair)[2], p)
                                      /\ Contains(SplitPair(wanted_pair)[1], p))

\* find_pairs: the known pairs that start or end with the wanted base
commonBasePairs(wanted_pair, known_pairs) ==
    SelectSeq(known_pairs, LAMBDA p : StartsWith(p, SplitPair(wanted_pair)[1])
                                      \/ EndsWith(p, SplitPair(wanted_pair)[1]))

\* find_pairs: set([p.split("-")[1] for p in common_base_pairs])
commonQuotes(wanted_pair, known_pairs) ==
    {SplitPair(p)[2] : p \in Range(commonBasePairs(wanted_pair, known_pairs))}

\* find_pairs: the pairs that hold the wanted quote and one of the currencies cs
relatedPairs(cs, quote, known_pairs) ==
    Flatten([k \in DOMAIN cs |->
                SelectSeq(known_pairs, LAMBDA p : Contains(cs[k], p) /\ Contains(quote, p))])

\* find_pairs: the filter of common_base_pairs and the zip
zipRelated(common_base_pairs, related_quote_pairs, idx) ==
    Zip(IF related_quote_pairs # <<>>
        THEN SelectSeq(common_base_pairs,
                 LAMBDA p : Contains(SplitPair(p)[idx + 1],
                                     JoinStr(Comma, related_quote_pairs)))
        ELSE common_base_pairs,
        related_quote_pairs)

\* find_pairs: related pairs by the common quotes; when there are none, by the
\* bases of common_base_pairs (idx = 0)
matchRelated(common_base_pairs, byQuotes, quote, known_pairs) ==
    IF byQuotes # <<>> THEN zipRelated(common_base_pairs, byQuotes, 1)
    ELSE zipRelated(common_base_pairs,
             relatedPairs([k \in DOMAIN common_base_pairs |->
                              SplitPair(common_base_pairs[k])[1]], quote, known_pairs),
             0)

\* find_pairs; quotes_order is the order list(set(...)) gave the common quotes
find_pairs(wanted_pair, known_pairs, valid_quotes, quotes_order) ==
    IF existingPairs(wanted_pair, known_pairs) # <<>>
    THEN <<<<existingPairs(wanted_pair, known_pairs)[1],
             existingPairs(wanted_pair, known_pairs)[1]>>>>
    ELSE matchRelated(commonBasePairs(wanted_pair, known_pairs),
             relatedPairs(SelectSeq(quotes_order, LAMBDA q : q \in Range(valid_quotes)),
                          SplitPair(wanted_pair)[2], known_pairs),
             SplitPair(wanted_pair)[2], known_pairs)

\* cases whose common_quote row walks the bids of p2 in both passes, and
\* get_cases: the sides of p1 and p2 that give the asks and the bids
get_casesSameSide(pair, p1, p2) ==
    [common_quote |-> [name |-> "common_quote", pair |-> pair, p1 |-> p1, p2 |-> p2,
                       asks |-> <<"asks", "bids">>, bids |-> <<"bids", "bids">>],
     common_base |-> [name |-> "common_base", pair |-> pair, p1 |-> p1, p2 |-> p2,
                      asks |-> <<"bids", "asks">>, bids |-> <<"asks", "bids">>],
     quote_base |-> [name |-> "quote_base", pair |-> pair, p1 |-> p1, p2 |-> p2,
                     asks |-> <<"asks", "asks">>, bids |-> <<"bids", "bids">>],
     base_quote |-> [name |-> "base_quote", pair |-> pair, p1 |-> p1, p2 |-> p2,
                     asks |-> <<"bids", "bids">>, bids |-> <<"asks", "asks">>]]
get_cases(pair, p1, p2) ==
    [common_quote |-> [name |-> "common_quote", pair |-> pair, p1 |-> p1, p2 |-> p2,
                       asks |-> <<"asks", "bids">>, bids |-> <<"bids", "asks">>],
     common_base |-> [name |-> "common_base", pair |-> pair, p1 |-> p1, p2 |-> p2,
                      asks |-> <<"bids", "asks">>, bids |-> <<"asks", "bids">>],
     quote_base |-> [name |-> "quote_base", pair |-> pair, p1 |-> p1, p2 |-> p2,
                     asks |-> <<"asks", "asks">>, bids |-> <<"bids", "bids">>],
     base_quote |-> [name |-> "base_quote", pair |-> pair, p1 |-> p1, p2 |-> p2,
                     asks |-> <<"bids", "bids">>, bids |-> <<"asks", "asks">>]]

\* the None of case_select
NoCase == [name |-> "None", pair |-> <<>>, p1 |-> <<>>, p2 |-> <<>>,
           asks |-> <<>>, bids |-> <<>>]

case_selectBaseFirst(pair, p1, p2) ==
    IF SplitPair(p1)[1] = SplitPair(p2)[1] THEN get_cases(pair, p1, p2).common_base
    ELSE IF SplitPair(p1)[2] = SplitPair(p2)[2] THEN get_cases(pair, p1, p2).common_quote
    ELSE IF SplitPair(p1)[2] = SplitPair(p2)[1] THEN get_cases(pair, p1, p2).quote_base
    ELSE IF SplitPair(p1)[1] = SplitPair(p2)[2] THEN get_cases(pair, p1, p2).base_quote
    ELSE NoCase
case_select(pair, p1, p2) ==
    IF SplitPair(p1)[2] = SplitPair(p2)[2] THEN get_cases(pair, p1, p2).common_quote
    ELSE IF SplitPair(p1)[1] = SplitPair(p2)[1] THEN get_cases(pair, p1, p2).common_base
    ELSE IF SplitPair(p1)[2] = SplitPair(p2)[1] THEN get_cases(pair, p1, p2).quote_base
    ELSE IF SplitPair(p1)[1] = SplitPair(p2)[2] THEN get_cases(pair, p1, p2).base_quote
    ELSE NoCase

\* the None a lookup or a combination returns
NoBook == [exch |-> <<>>, pair |-> <<>>, ts |-> 0, bids |-> <<>>, asks |-> <<>>,
           quote_state |-> LevelsState0, base_state |-> LevelsState0]

\* the index of the first book with the pair (0 when there is none)
indexOfPair(books, pair) ==
    IF \E k \in DOMAIN books : books[k].pair = pair
    THEN CHOOSE k \in DOMAIN books :
             books[k].pair = pair /\ \A j \in 1..(k - 1) : books[j].pair # pair
    ELSE 0

\* get_exch_book(exch, pair, obs, as_copy, fallback); an empty list of books is
\* falsy, as a missing venue is
RECURSIVE get_exch_book(_, _, _, _)
get_exch_book(exch, pair, o, fallback) ==
    IF obsHas(o, exch) /\ indexOfPair(obsGet(o, exch), pair) # 0
    THEN copy_self(obsGet(o, exch)[indexOfPair(obsGet(o, exch), pair)])
    ELSE IF fallback /\ IsJnd(exch)
    THEN get_exch_book(SplitUnderscore0(exch), pair, o, FALSE)
    ELSE NoBook

\* book.aggregateLevels(debug) when the flag is set
aggIf(aggLevels, b, debug) == IF aggLevels THEN aggregateLevels(b, debug) ELSE b

\* max([i.ts for i in obL])
RECURSIVE MaxTs(_)
MaxTs(obL) == IF Len(obL) = 1 THEN obL[1].ts ELSE Max2(obL[1].ts, MaxTs(Tail(obL)))

\* a join that keeps the levels of the first book only, and nBooksJoin
nBooksJoinFirstOnly(obL, pair, exch, add_fees, aggLevels) ==
    aggIf(aggLevels,
          OrderBookItem(IF exch # <<>> THEN exch ELSE obL[1].exch,
                        IF pair # <<>> THEN pair ELSE obL[1].pair,
                        MaxTs(obL),
                        IF add_fees THEN bidsAfterFees(obL[1], RZero, FALSE) ELSE obL[1].bids,
                        IF add_fees THEN asksAfterFees(obL[1], RZero, FALSE) ELSE obL[1].asks),
          FALSE)

nBooksJoin(obL, pair, exch, add_fees, aggLevels) ==
    aggIf(aggLevels,
          OrderBookItem(IF exch # <<>> THEN exch ELSE obL[1].exch,
                        IF pair # <<>> THEN pair ELSE obL[1].pair,
                        MaxTs(obL),
                        SortDesc(Flatten([k \in DOMAIN obL |->
                            IF add_fees THEN bidsAfterFees(obL[k], RZero, FALSE)
                            ELSE obL[k].bids])),
                        SortAsc(Flatten([k \in DOMAIN obL |->
                            IF add_fees THEN asksAfterFees(obL[k], RZero, FALSE)
                            ELSE obL[k].asks]))),
          FALSE)

\* join_exch_obs, once the two books are looked up
joinBooks(ob1, ob2, joined_pair, exch, add_fees) ==
    IF ob1 = NoBook \/ ob2 = NoBook THEN NoBook
    ELSE nBooksJoin(<<ob1, ob2>>, joined_pair, exch, add_fees, FALSE)

join_exch_obs(exch, inp1, inp2, joined_pair, o, add_fees) ==
    joinBooks(get_exch_book(exch, inp1, o, FALSE), get_exch_book(exch, inp2, o, FALSE),
              joined_pair, exch, add_fees)

\* list.remove of the element at index k (none for k = 0)
RemoveAt(s, k) == IF k = 0 THEN s ELSE SubSeq(s, 1, k - 1) \o SubSeq(s, k + 1, Len(s))

\* multiple_join_exch_obs, keep_both = False: the first book of inp1 (index k1)
\* becomes the joined book
replaceInp1(books, k1, join, entry, new_book, aggLevels) ==
    IF k1 = 0 THEN books
    ELSE [books EXCEPT ![k1] =
             aggIf(aggLevels,
                   [@ EXCEPT !.pair = entry.joined, !.exch = join,
                             !.bids = new_book.bids, !.asks = new_book.asks],
                   FALSE)]

\* ... and the first book that then has the pair inp2 is removed
removeInp2(books, inp2) == RemoveAt(books, indexOfPair(books, inp2))

\* multiple_join_exch_obs, the body of the loop over toJoin once the books are joined
joinPut(o, join, entry, new_book, keep_both, aggLevels) ==
    IF new_book = NoBook THEN o
    ELSE IF keep_both
    THEN obsSet(o, join, Append(obsGet(o, join),
                                aggIf(aggLevels, [new_book EXCEPT !.exch = join], FALSE)))
    ELSE obsSet(o, join,
                removeInp2(replaceInp1(obsGet(o, join),
                                       indexOfPair(obsGet(o, join), entry.inp1),
                                       join, entry, new_book, aggLevels),
                           entry.inp2))

RECURSIVE joinAll(_, _, _, _, _, _)
joinAll(o, join, toJoin, keep_both, add_fees, aggLevels) ==
    IF toJoin = <<>> THEN o
    ELSE joinAll(joinPut(o, join, Head(toJoin),
                         join_exch_obs(join, Head(toJoin).inp1, Head(toJoin).inp2,
                                       Head(toJoin).joined, o, add_fees),
                         keep_both, aggLevels),
                 join, Tail(toJoin), keep_both, add_fees, aggLevels)

\* multiple_join_exch_obs, the body of the loop over the venues: obs[join] is set
\* to the copies, and the joins are made when there are some
joinVenue(toJoin, o, join, copies, keep_both, add_fees, aggLevels) ==
    IF copies = <<>> THEN obsSet(o, join, <<>>)
    ELSE joinAll(obsSet(o, join, copies), join, toJoin, keep_both, add_fees, aggLevels)

\* [i.copy_self() for i in books if i.pair in pairs]
copiesOf(books, pairs) ==
    [k \in DOMAIN SelectSeq(books, LAMBDA b : b.pair \in pairs) |->
        copy_self(SelectSeq(books, LAMBDA b : b.pair \in pairs)[k])]

\* multiple_join_exch_obs; toJoin is a sequence of [joined, inp1, inp2]
RECURSIVE multiple_join_exch_obs(_, _, _, _, _, _)
multiple_join_exch_obs(toJoin, o, exchanges, keep_both, add_fees, aggLevels) ==
    IF exchanges = <<>> THEN o
    ELSE multiple_join_exch_obs(toJoin,
             joinVenue(toJoin, o, Jnd(Head(exchanges)),
                       copiesOf(obsGet(o, Head(exchanges)),
                                UNION {{toJoin[k].inp1, toJoin[k].inp2} : k \in DOMAIN toJoin}),
                       keep_both, add_fees, aggLevels),
             Tail(exchanges), keep_both, add_fees, aggLevels)

\* get_exch_obs_pairs: the set the list is built from
exchPairs(exch, o) == {obsGet(o, exch)[k].pair : k \in DOMAIN obsGet(o, exch)}
\* get_exch_obs_pairs: list(set(...)), in any order
get_exch_obs_pairs(exch, o) == Perms(exchPairs(exch, o))

\* the code points of the characters of pair labels, for str comparison
Alphabet == <<"-", "A", "B", "C", "D", "E", "F", "G", "H", "I", "J", "K", "L", "M",
              "N", "O", "P", "Q", "R", "S", "T", "U", "V", "W", "X", "Y", "Z">>
Ord(c) == CHOOSE k \in DOMAIN Alphabet : Alphabet[k] = c
RECURSIVE StrLe(_, _)
StrLe(a, b) ==
    IF a = <<>> THEN TRUE
    ELSE IF b = <<>> THEN FALSE
    ELSE IF Head(a) = Head(b) THEN StrLe(Tail(a), Tail(b))
    ELSE Ord(Head(a)) < Ord(Head(b))

\* books.sort(key=pair): stable
RECURSIVE InsertByPair(_, _)
InsertByPair(s, x) ==
    IF s = <<>> THEN <<x>>
    ELSE IF StrLe(Head(s).pair, x.pair) THEN <<Head(s)>> \o InsertByPair(Tail(s), x)
    ELSE <<x>> \o s
RECURSIVE SortByPair(_)
SortByPair(s) ==
    IF s = <<>> THEN <<>> ELSE InsertByPair(SortByPair(SubSeq(s, 1, Len(s) - 1)), s[Len(s)])

\* xExchMerge: the pairs every venue of the list has
commonPairs(o, exchanges) ==
    {p \in exchPairs(exchanges[1], o) :
        \A k \in DOMAIN exchanges : p \in exchPairs(exchanges[k], o)}

\* xExchMerge: the books of the common pairs of venue i, sorted by pair
exchBooks(i, o, exchanges) ==
    SortByPair(copiesOf(obsGet(o, i), commonPairs(o, exchanges)))

\* min(len(...)) of the zip
RECURSIVE MinLen(_)
MinLen(ss) ==
    IF Len(ss) = 1 THEN Len(ss[1])
    ELSE IF Len(ss[1]) < MinLen(Tail(ss)) THEN Len(ss[1]) ELSE MinLen(Tail(ss))

\* xExchMerge: one tuple k of the zip merged, fees applied
mergeRow(k, exch, aggLevels) ==
    aggIf(aggLevels, nBooksJoin(k, k[1].pair, exch, TRUE, FALSE), FALSE)

\* xExchMerge: the loop over the zip of the venues' book lists
mergeZip(lists, exch, aggLevels) ==
    [n \in 1..MinLen(lists) |-> mergeRow([m \in DOMAIN lists |-> lists[m][n]], exch,
                                         aggLevels)]

\* xExchMerge: the merged books of the venues j, under the name "-".join(j)
mergeOf(j, o, exchanges, aggLevels) ==
    [name |-> JoinExch(j),
     books |-> mergeZip([k \in DOMAIN j |-> exchBooks(j[k], o, exchanges)], JoinExch(j),
                        aggLevels)]

\* combinations(exchanges, n) for n = 2 .. len(exchanges), lists of up to three venues
Combinations(exchanges) ==
    IF Len(exchanges) = 3
    THEN <<<<exchanges[1], exchanges[2]>>, <<exchanges[1], exchanges[3]>>,
           <<exchanges[2], exchanges[3]>>, exchanges>>
    ELSE IF Len(exchanges) = 2 THEN <<exchanges>>
    ELSE <<>>

\* xExchMerge
xExchMerge(exchanges, o, allCombos, aggLevels) ==
    IF allCombos
    THEN [c \in DOMAIN Combinations(exchanges) |->
             mergeOf(Combinations(exchanges)[c], o, exchanges, aggLevels)]
    ELSE <<mergeOf(exchanges, o, exchanges, aggLevels)>>

\* xExchMerge raises: a fee lookup of nBooksJoin(..., add_fees=True) fails on a
\* book of the zip
mergeRaisesIn(lists) ==
    \E n \in 1..MinLen(lists), m \in DOMAIN lists, side \in {"bids", "asks"} :
        sideAfterFeesRaises(lists[m][n], side, FALSE)
mergeRaisesOf(j, o, exchanges) ==
    mergeRaisesIn([k \in DOMAIN j |-> exchBooks(j[k], o, exchanges)])
xExchMergeRaises(exchanges, o, allCombos) ==
    IF allCombos
    THEN \E c \in DOMAIN Combinations(exchanges) :
            mergeRaisesOf(Combinations(exchanges)[c], o, exchanges)
    ELSE mergeRaisesOf(exchanges, o, exchanges)

-----------------------------------------------------------------------------
(* comboBooks.py: synthesis by conversion through a second pair.           *)

\* the debug list of a synthesized level
convertDebug(i, lvl, ob1, ob2, size1, side1, side2, debug) ==
    IF debug
    THEN <<DebugEntry(i.price, size1, i.exch, exchFees(i.exch, ob1.pair, FALSE),
                      ob1.pair, TakerSide(side1)),
           DebugEntry(lvl.price, lvl.size, lvl.exch, exchFees(lvl.exch, ob2.pair, FALSE),
                      ob2.pair, TakerSide(side2))>>
    ELSE <<>>

\* round(size, round_digits(ob1.lenSizeDecimals, ob2.lenSizeDecimals, size))
roundSize(size, ob1, ob2) ==
    PyRound(size, round_digits(lenSizeDecimals(ob1), lenSizeDecimals(ob2), size))

\* 1 + comboFees([(i.exch, ob1.pair), (lvl.exch, ob2.pair)])
feeFactor(i, lvl, ob1, ob2) ==
    RAdd(ROne, comboFees(<<<<i.exch, ob1.pair>>, <<lvl.exch, ob2.pair>>>>))

\* prcWfees: prc * (1 + fees), rounded
priceWithFees(prc, factor, ob1, ob2) ==
    PyRoundMul(prc, factor,
               round_digitsMul(lenPrcDecimals(ob1), lenPrcDecimals(ob2), prc, factor))

\* convert_side_quote, the body of the loop over the levels a traversal returned
quoteSized(i, lvl, ob1, ob2, side1, side2, debug, prc, size) ==
    Entry(priceWithFees(prc, feeFactor(i, lvl, ob1, ob2), ob1, ob2), size, mergedExch,
          convertDebug(i, lvl, ob1, ob2, size, side1, side2, debug))
quotePriced(i, lvl, ob1, ob2, side1, side2, debug, prc) ==
    quoteSized(i, lvl, ob1, ob2, side1, side2, debug, prc,
               roundSize(RDiv(lvl.size, prc), ob1, ob2))
quoteEntry(i, lvl, ob1, ob2, side1, side2, debug) ==
    quotePriced(i, lvl, ob1, ob2, side1, side2, debug, RDiv(i.price, lvl.wap))

\* convert_side_base, the body of the loop over the levels a traversal returned
baseEntry(i, lvl, ob1, ob2, side1, side2, debug) ==
    Entry(priceWithFees(RMul(i.price, lvl.wap), feeFactor(i, lvl, ob1, ob2), ob1, ob2),
          roundSize(lvl.size, ob1, ob2), mergedExch,
          convertDebug(i, lvl, ob1, ob2, i.size, side1, side2, debug))

\* a fee lookup of the loop body raises
entryRaises(i, lvl, ob1, ob2) ==
    comboFeesRaises(<<<<i.exch, ob1.pair>>, <<lvl.exch, ob2.pair>>>>)

\* a traversal that starts from the top of the side whatever the cursor, and
\* ob2.wap_quote_levels(qty, side2) or ob2.wap_base_levels(qty, side2)
traverseFromTop(quote, ob2, qty, side2) ==
    IF quote THEN wap_quote_levels(reset_wap_state(ob2), qty, side2, FALSE)
    ELSE wap_base_levels(reset_wap_state(ob2), qty, side2, FALSE)
traverse(quote, ob2, qty, side2) ==
    IF quote THEN wap_quote_levels(ob2, qty, side2, FALSE)
    ELSE wap_base_levels(ob2, qty, side2, FALSE)

\* the traversal made for level i of sideA1: the quantity asked for, the entries
\* returned and the cursor it left
stepOf(quote, side2, i, w) ==
    [qty |-> RMul(i.price, i.size), res |-> w.res,
     after |-> IF quote THEN w.book.quote_state[side2] ELSE w.book.base_state[side2]]
withStep(step, r) == [r EXCEPT !.steps = <<step>> \o @]

\* the loop over sideA1 from level k on; quote tells the traversal;
\* [entries, ob2: the second book with its cursor moved, raised, quote, steps:
\* the traversals made]
RECURSIVE ConvertLoop(_, _, _, _, _, _, _, _)
RECURSIVE convertStep(_, _, _, _, _, _, _, _, _)
convertStep(quote, ob1, side1, side2, debug, k, entries, i, w) ==
    IF \E n \in DOMAIN w.res : entryRaises(i, w.res[n], ob1, w.book)
    THEN [entries |-> entries, ob2 |-> w.book, raised |-> TRUE, quote |-> quote,
          steps |-> <<stepOf(quote, side2, i, w)>>]
    ELSE withStep(stepOf(quote, side2, i, w),
             ConvertLoop(quote, ob1, w.book, side1, side2, debug, k + 1,
                 entries \o [n \in DOMAIN w.res |->
                                IF quote
                                THEN quoteEntry(i, w.res[n], ob1, w.book, side1, side2, debug)
                                ELSE baseEntry(i, w.res[n], ob1, w.book, side1, side2, debug)]))
ConvertLoop(quote, ob1, ob2, side1, side2, debug, k, entries) ==
    IF k > Len(Side(ob1, side1))
    THEN [entries |-> entries, ob2 |-> ob2, raised |-> FALSE, quote |-> quote,
          steps |-> <<>>]
    ELSE convertStep(quote, ob1, side1, side2, debug, k, entries, Side(ob1, side1)[k],
                     traverse(quote, ob2,
                              RMul(Side(ob1, side1)[k].price, Side(ob1, side1)[k].size),
                              side2))

convert_side_quote(ob1, ob2, side1, side2, debug) ==
    ConvertLoop(TRUE, ob1, ob2, side1, side2, debug, 1, <<>>)

\* ob2.reset_wap_state() at the end of convert_side_base
resetDone(r) == IF r.raised THEN r ELSE [r EXCEPT !.ob2 = reset_wap_state(@)]

convert_side_base(ob1, ob2, side1, side2, debug) ==
    resetDone(ConvertLoop(FALSE, ob1, ob2, side1, side2, debug, 1, <<>>))

\* matchFromJoined; joinedPs is a sequence of [joined, inp1, inp2]
RECURSIVE matchFromJoined(_, _)
matchFromJoined(pair, joinedPs) ==
    IF joinedPs = <<>> THEN pair
    ELSE IF pair \in {Head(joinedPs).inp1, Head(joinedPs).inp2} THEN Head(joinedPs).joined
    ELSE matchFromJoined(pair, Tail(joinedPs))

\* combo_by_conversion: the conversion the case's name selects
caseEntries(case, ob1, ob2, sides, debug) ==
    CASE case.name = "common_quote" ->
            convert_side_quote(ob1, ob2, sides[1], sides[2], debug)
      [] case.name = "common_base" ->
            convert_side_base(ob1, ob2, sides[1], sides[2], debug)
      [] case.name = "quote_base" ->
            convert_side_quote(ob1, ob2, sides[1], sides[2], debug)
      [] OTHER ->
            convert_side_base(ob1, ob2, sides[1], sides[2], debug)

\* what the loop body did for a tuple
tupleLog(p1, p2, name, traversal, asks, bids, emitted) ==
    [p1 |-> p1, p2 |-> p2, case |-> name, traversal |-> traversal,
     asks |-> asks, bids |-> bids, emitted |-> emitted]
traversalOf(r) == IF r.quote THEN "quote" ELSE "base"

\* the cursor of the second book a pass is about to traverse from: that of the
\* side sides[2], in the denomination of the case's traversal
passCursor(ob2, case, sides) ==
    IF case.name \in {"common_quote", "quote_base"}
    THEN ob2.quote_state[sides[2]] ELSE ob2.base_state[sides[2]]

\* the tuple's log with the cursor a pass started from, or ended at
withStart(r, pass, cursor) == [r EXCEPT !.log = (pass :> cursor) @@ @]

\* obs once a caller has changed into b the book get_exch_book(exch, pair, obs,
\* as_copy, fallback) handed it: the book of obs is b when it was handed itself,
\* and is as it was when a copy was handed
RECURSIVE storeShared(_, _, _, _, _, _)
storeShared(o, exch, pair, b, as_copy, fallback) ==
    IF obsHas(o, exch) /\ indexOfPair(obsGet(o, exch), pair) # 0
    THEN obsSet(o, exch, [obsGet(o, exch) EXCEPT ![indexOfPair(obsGet(o, exch), pair)] = b])
    ELSE IF fallback /\ IsJnd(exch)
    THEN storeShared(o, SplitUnderscore0(exch), pair, b, as_copy, FALSE)
    ELSE o
storeOfShared(o, exch, pair, b, as_copy, fallback) ==
    storeShared(o, exch, pair, b, as_copy, fallback)
storeOf(o, exch, pair, b, as_copy, fallback) ==
    IF as_copy THEN o ELSE storeShared(o, exch, pair, b, as_copy, fallback)

\* the tuple's result with obs as the conversions left it
tupleStored(o, exch, p2, r) ==
    [book |-> r.book, raised |-> r.raised, log |-> r.log,
     o |-> storeOf(o, exch, p2, r.ob2, TRUE, TRUE)]

\* combo_by_conversion, the end of the loop body: the book, when both sides have levels
tupleBooked(pair, exch, p1, p2, ob1, case, debug, aggLevels, a, b) ==
    IF b.raised
    THEN [book |-> NoBook, raised |-> TRUE, ob2 |-> b.ob2,
          log |-> tupleLog(p1, p2, case.name, traversalOf(b), case.asks, case.bids, FALSE)]
    ELSE IF a.entries # <<>> /\ b.entries # <<>>
    THEN [book |-> aggIf(aggLevels, OrderBookItem(exch, pair, ob1.ts, b.entries, a.entries),
                         debug),
          raised |-> FALSE, ob2 |-> b.ob2,
          log |-> tupleLog(p1, p2, case.name, traversalOf(b), case.asks, case.bids, TRUE)]
    ELSE [book |-> NoBook, raised |-> FALSE, ob2 |-> b.ob2,
          log |-> tupleLog(p1, p2, case.name, traversalOf(b), case.asks, case.bids, FALSE)]
tupleBook(pair, exch, p1, p2, ob1, case, debug, aggLevels, a, b) ==
    withStart(tupleBooked(pair, exch, p1, p2, ob1, case, debug, aggLevels, a, b),
              "bidsSteps", b.steps)

\* ... the bids, converted on the second book as the asks' conversion left it
tupleBids(pair, exch, p1, p2, ob1, case, debug, aggLevels, a) ==
    IF a.raised
    THEN [book |-> NoBook, raised |-> TRUE, ob2 |-> a.ob2,
          log |-> tupleLog(p1, p2, case.name, traversalOf(a), case.asks, case.bids, FALSE)]
    ELSE withStart(withStart(withStart(
                       tupleBook(pair, exch, p1, p2, ob1, case, debug, aggLevels, a,
                                 caseEntries(case, ob1, a.ob2, case.bids, debug)),
                       "bidsStart", passCursor(a.ob2, case, case.bids)),
                       "asksEnd", passCursor(a.ob2, case, case.asks)),
                   "asksSteps", a.steps)

\* ... the lookups' and the case's tests, and the asks
tupleAsks(pair, exch, p1, p2, ob1, ob2, case, debug, aggLevels) ==
    IF ob1 = NoBook \/ ob2 = NoBook
    THEN [book |-> NoBook, raised |-> FALSE, ob2 |-> ob2,
          log |-> tupleLog(p1, p2, "skipped", "none", <<>>, <<>>, FALSE)]
    ELSE IF case = NoCase
    THEN [book |-> NoBook, raised |-> FALSE, ob2 |-> ob2,
          log |-> tupleLog(p1, p2, "None", "none", <<>>, <<>>, FALSE)]
    ELSE withStart(tupleBids(pair, exch, p1, p2, ob1, case, debug, aggLevels,
                             caseEntries(case, ob1, ob2, case.asks, debug)),
                   "asksStart", passCursor(ob2, case, case.asks))

\* combo_by_conversion, the body of the loop over comp_pairs for the tuple (p1, p2):
\* [book (NoBook when none is appended), log, raised]
comboTuple(pair, exch, o, p1, p2, debug, aggLevels) ==
    tupleStored(o, exch, p2,
                tupleAsks(pair, exch, p1, p2, get_exch_book(exch, p1, o, TRUE),
                          get_exch_book(exch, p2, o, TRUE), case_select(pair, p1, p2),
                          debug, aggLevels))

RECURSIVE comboLoop(_, _, _, _, _, _, _, _)
RECURSIVE comboNext(_, _, _, _, _, _, _, _, _)
comboNext(pair, exch, o, rest, debug, aggLevels, books, trace, t) ==
    IF t.raised
    THEN [books |-> <<>>, trace |-> Append(trace, t.log), raised |-> TRUE, o |-> t.o]
    ELSE comboLoop(pair, exch, t.o, rest, debug, aggLevels,
                   IF t.book = NoBook THEN books ELSE Append(books, t.book),
                   Append(trace, t.log))
comboLoop(pair, exch, o, comp_pairs, debug, aggLevels, books, trace) ==
    IF comp_pairs = <<>> THEN [books |-> books, trace |-> trace, raised |-> FALSE, o |-> o]
    ELSE comboNext(pair, exch, o, Tail(comp_pairs), debug, aggLevels, books, trace,
                   comboTuple(pair, exch, o, Head(comp_pairs)[1], Head(comp_pairs)[2],
                              debug, aggLevels))

\* combo_by_conversion; quotes_order is the order of find_pairs' set of common
\* quotes; books = <<>> stands for None; obs[next(iter(obs))][0] raises on an
\* empty first list
combo_by_conversion(pair, exch, o, known_pairs, debug, aggLevels, quotes_order) ==
    IF o[1].books = <<>>
    THEN [books |-> <<>>, trace |-> <<>>, raised |-> TRUE, o |-> o]
    ELSE comboLoop(pair, exch, o,
                   find_pairs(pair, known_pairs, VALID_QUOTES, quotes_order),
                   debug, aggLevels, <<>>, <<>>)

\* addLevelsDebug raises on the first level: addSideDebug hands `erases` to
\* addDebug in the place of the constants object
addLevelsDebugRaises(b) == b.bids # <<>> \/ b.asks # <<>>

\* get_taker_book applies fees for a venue or its joined alias
IsFeeVenue(exch) ==
    exch \in Range(EXCHANGES) \cup {Jnd(EXCHANGES[k]) : k \in DOMAIN EXCHANGES}

\* get_taker_book raises, ob0 being the book looked up
takerRaisesOn(ob0, final_pair, exch, inv, debug) ==
    /\ ob0 # NoBook
    /\ \/ inv /\ inverseBookRaises(ob0, debug)
       \/ ~inv /\ debug /\ addLevelsDebugRaises(ob0)
       \/ IsFeeVenue(exch) /\ \E side \in {"asks", "bids"} :
                                  sideAfterFeesRaises([ob0 EXCEPT !.pair = final_pair],
                                                      side, inv)
takerRaises(final_pair, pair, exch, o, inv, debug) ==
    takerRaisesOn(get_exch_book(exch, pair, o, FALSE), final_pair, exch, inv, debug)

\* get_taker_book: ob.asks = ob.asksAfterFees(...); ob.bids = ob.bidsAfterFees(...),
\* both on the precision cached before the asks were replaced
takerFees(ob, exch, inv) ==
    IF IsFeeVenue(exch)
    THEN [ob EXCEPT !.asks = asksAfterFees(ob, RZero, inv),
                    !.bids = bidsAfterFees(ob, RZero, inv)]
    ELSE ob

\* get_taker_book: ob.pair = final_pair
takerRelabelKeep(ob, final_pair) == ob
takerRelabel(ob, final_pair) == [ob EXCEPT !.pair = final_pair]

\* get_taker_book, ob0 being the book looked up (a call that does not raise);
\* NoBook stands for None
takerOf(ob0, final_pair, exch, inv, debug, aggLevels) ==
    IF ob0 = NoBook THEN NoBook
    ELSE aggIf(aggLevels,
               takerFees(takerRelabel(IF inv THEN inverseBook(ob0, debug) ELSE ob0,
                                      final_pair),
                         exch, inv),
               debug)
get_taker_book(final_pair, pair, exch, o, inv, debug, aggLevels) ==
    takerOf(get_exch_book(exch, pair, o, FALSE), final_pair, exch, inv, debug, aggLevels)

\* get_taker_book: the book looked up as the call leaves it; inverseBook builds
\* a new book, the other assignments are made on the book looked up
takerLeft(ob0, final_pair, exch, inv, debug, aggLevels) ==
    IF ob0 = NoBook \/ inv THEN ob0
    ELSE IF debug /\ addLevelsDebugRaises(ob0) THEN ob0
    ELSE IF takerRaisesOn(ob0, final_pair, exch, inv, debug)
    THEN [ob0 EXCEPT !.pair = final_pair]
    ELSE takerOf(ob0, final_pair, exch, inv, debug, aggLevels)

\* get_taker_book: obs as the call leaves it
takerStored(final_pair, pair, exch, o, inv, debug, aggLevels) ==
    storeOf(o, exch, pair,
            takerLeft(get_exch_book(exch, pair, o, FALSE), final_pair, exch, inv, debug,
                      aggLevels),
            TRUE, FALSE)

\* combo_book: books = [ob] when get_taker_book returned a book
takerResult(branch, src, raises, ob, o) ==
    [branch |-> branch, src |-> src, trace |-> <<>>, raised |-> raises,
     books |-> IF raises \/ ob = NoBook THEN <<>> ELSE <<ob>>, o |-> o]

\* combo_book, the three branches on the target labels
comboBranch(pair, exch, o, debug, aggLevels, known_pairs, quotes_order, target, inv_target) ==
    IF target \in Range(known_pairs)
    THEN takerResult("known", get_exch_book(exch, target, o, FALSE),
                     takerRaises(pair, target, exch, o, FALSE, debug),
                     get_taker_book(pair, target, exch, o, FALSE, debug, aggLevels),
                     takerStored(pair, target, exch, o, FALSE, debug, aggLevels))
    ELSE IF inv_target \in Range(known_pairs)
    THEN takerResult("inverse", get_exch_book(exch, inv_target, o, FALSE),
                     takerRaises(pair, inv_target, exch, o, TRUE, debug),
                     get_taker_book(pair, inv_target, exch, o, TRUE, debug, aggLevels),
                     takerStored(pair, inv_target, exch, o, TRUE, debug, aggLevels))
    ELSE [branch |-> "synth", src |-> NoBook] @@
         combo_by_conversion(pair, exch, o, known_pairs, debug, aggLevels, quotes_order)

\* combo_book; known_pairs and quotes_order are the orders list(set(...)) gave;
\* [books (<<>> for None), branch, src, trace, raised]
combo_book(pair, exch, o, joinedPs, debug, aggLevels, known_pairs, quotes_order) ==
    comboBranch(pair, exch, o, debug, aggLevels, known_pairs, quotes_order,
                matchFromJoined(pair, joinedPs),
                matchFromJoined(ReversePair(pair), joinedPs))

-----------------------------------------------------------------------------
(* Spec: the venues' books, joined and merged, and the calls of combo_book. *)

\* the (price, size) levels of the snapshots: asks, then bids
LevelsOf(pair) ==
    CASE pair = MkPair(ETH, USDT) ->
            [asks |-> <<<<I(30), I(1)>>, <<I(31), I(2)>>>>,
             bids |-> <<<<I(29), I(1)>>, <<I(28), I(2)>>>>]
      [] pair = MkPair(KNC, USDT) ->
            [asks |-> <<<<Q(6, 10), I(10)>>, <<Q(7, 10), I(20)>>>>,
             bids |-> <<<<Q(5, 10), I(10)>>, <<Q(4, 10), I(20)>>>>]
      [] pair = MkPair(ETH, DAI) ->
            [asks |-> <<<<I(30), I(1)>>, <<I(32), I(1)>>>>,
             bids |-> <<<<I(29), I(1)>>, <<I(27), I(1)>>>>]
      [] pair = MkPair(ETH, USDC) ->
            [asks |-> <<<<I(30), I(2)>>>>, bids |-> <<<<I(28), I(1)>>>>]
      [] pair = MkPair(KNC, BTC) ->
            [asks |-> <<<<Q(2, 100), I(100)>>>>, bids |-> <<<<Q(1, 100), I(100)>>>>]
      [] pair = MkPair(BTC, DAI) ->
            [asks |-> <<<<I(300), I(10)>>>>, bids |-> <<<<I(290), I(10)>>>>]
      [] pair = MkPair(ETH, BTC) ->
            [asks |-> <<<<Q(1, 10), I(1)>>>>, bids |-> <<<<Q(9, 100), I(1)>>>>]

\* the snapshot of a pair on a venue (Coinbase's ETH-USDT is the book of S1)
SnapshotOf(exch, pair) ==
    IF exch = coinbase /\ pair = MkPair(ETH, USDT) THEN S1Book
    ELSE LET l == LevelsOf(pair)
         IN  OrderBookItem(exch, pair, 1,
                 [k \in DOMAIN l.bids |-> Entry(l.bids[k][1], l.bids[k][2], exch, <<>>)],
                 [k \in DOMAIN l.asks |-> Entry(l.asks[k][1], l.asks[k][2], exch, <<>>)])

\* the venues and the pair lists of the fetched snapshots
Fetches ==
    {<<(<<coinbase>>), <<MkPair(ETH, USDT)>>>>,
     <<(<<okx>>), <<MkPair(KNC, USDT), MkPair(ETH, USDT)>>>>,
     <<(<<okx>>), <<MkPair(ETH, DAI), MkPair(ETH, USDT)>>>>,
     <<(<<okx>>), <<MkPair(KNC, BTC), MkPair(BTC, DAI)>>>>,
     <<(<<okx>>), <<MkPair(KNC, USDT), MkPair(KNC, BTC), MkPair(ETH, BTC),
                   MkPair(ETH, USDT)>>>>,
     <<(<<binance, okx>>), <<MkPair(ETH, USDC), MkPair(ETH, DAI), MkPair(ETH, USDT)>>>>}

\* get_all_books: every venue with a snapshot of every pair of the list
ObsOf(venues, pairs) ==
    [v \in DOMAIN venues |->
        [name |-> venues[v],
         books |-> [k \in DOMAIN pairs |-> SnapshotOf(venues[v], pairs[k])]]]

\* the join map of the test driver
ToJoin == <<[joined |-> MkPair(ETH, USDC), inp1 |-> MkPair(ETH, USDC),
             inp2 |-> MkPair(ETH, DAI)]>>

Wants == {MkPair(ETH, USDT), MkPair(USDT, ETH), MkPair(KNC, ETH), MkPair(DAI, USDT),
          MkPair(KNC, DAI), MkPair(DAI, KNC), MkPair(ETH, DAI)}

Init ==
    /\ obs \in {ObsOf(f[1], f[2]) : f \in Fetches}
    /\ merged = <<>>
    /\ ret = <<>>
    /\ book = NoBook
    /\ calls = <<>>

\* the venues of obs that are no joined aliases
PlainVenues(o) == SelectSeq(obsKeys(o), LAMBDA e : ~IsJnd(e))
JoinedVenues(o) == SelectSeq(obsKeys(o), LAMBDA e : IsJnd(e))

\* multiple_join_exch_obs(ToJoin, obs, venues, keep_both, add_fees, aggLevels)
MultipleJoinCall(keep_both, add_fees, aggLevels) ==
    /\ ret = <<>>
    /\ JoinedVenues(obs) = <<>>
    /\ merged = <<>>
    /\ obs' = multiple_join_exch_obs(ToJoin, obs, PlainVenues(obs), keep_both, add_fees,
                                     aggLevels)
    /\ calls' = Append(calls, [op |-> "multiple_join_exch_obs", keep_both |-> keep_both,
                                 aggLevels |-> aggLevels])
    /\ UNCHANGED <<merged, ret, book>>

\* merged = xExchMerge(exchanges, obs, allCombos, aggLevels), on the joined aliases
\* when there are some, else on the venues
XExchMergeCall(allCombos, aggLevels) ==
    LET exchanges == IF JoinedVenues(obs) # <<>> THEN JoinedVenues(obs) ELSE PlainVenues(obs)
    IN  /\ ret = <<>>
        /\ merged = <<>>
        /\ Len(exchanges) >= 2
        /\ merged' = xExchMerge(exchanges, obs, allCombos, aggLevels)
        /\ calls' = Append(calls, [op |-> "xExchMerge", allCombos |-> allCombos,
                                     aggLevels |-> aggLevels])
        /\ UNCHANGED <<obs, ret, book>>

\* the orders of get_exch_obs_pairs that combo_book can tell apart: all of them
\* when the pair is synthesized, one of them when it only tests membership
knownOrders(want, exch, o, joinedPs) ==
    LET orders == get_exch_obs_pairs(exch, o)
        pairs == exchPairs(exch, o)
    IN  IF matchFromJoined(want, joinedPs) \in pairs
           \/ matchFromJoined(ReversePair(want), joinedPs) \in pairs
        THEN {CHOOSE s \in orders : TRUE}
        ELSE orders

\* combo_book(want, exch, obs | merged, joinedPs, debug, aggLevels), the one call of
\* a run; the returned book (the first one) becomes the book under study
ComboBookCall(want, exch, joinedPs, debug, aggLevels) ==
    LET o == obsUnion(obs, merged) IN
    /\ ret = <<>>
    /\ obsHas(o, exch)
    /\ \E known_pairs \in knownOrders(want, exch, o, joinedPs) :
       \E quotes_order \in Perms(commonQuotes(want, known_pairs)) :
          ret' = [op |-> "combo_book", want |-> want, exch |-> exch,
                  joinedPs |-> joinedPs, debug |-> debug, aggLevels |-> aggLevels,
                  known |-> Range(known_pairs)] @@
                 combo_book(want, exch, o, joinedPs, debug, aggLevels, known_pairs,
                            quotes_order)
    /\ book' = IF ret'.books = <<>> THEN NoBook ELSE ret'.books[1]
    /\ calls' = Append(calls, [op |-> "combo_book"])
    /\ UNCHANGED <<obs, merged>>

\* book.aggregateLevels() on the book under study
AggregateBookCall ==
    /\ book # NoBook
    /\ book' = aggregateLevels(book, FALSE)
    /\ book' # book
    /\ calls' = Append(calls, [op |-> "aggregateLevels", before |-> book])
    /\ UNCHANGED <<obs, merged, ret>>

Next ==
    \/ \E keep_both, aggLevels \in BOOLEAN : MultipleJoinCall(keep_both, FALSE, aggLevels)
    \/ \E allCombos, aggLevels \in BOOLEAN : XExchMergeCall(allCombos, aggLevels)
    \/ \E want \in Wants, exch \in Range(obsKeys(obsUnion(obs, merged))),
          joinedPs \in {<<>>, ToJoin}, aggLevels \in BOOLEAN :
          ComboBookCall(want, exch, joinedPs, FALSE, aggLevels)
    \/ AggregateBookCall

Spec == Init /\ [][Next]_vars

-----------------------------------------------------------------------------
(* The claims on combo_book, checked on Spec. *)

\* the state is the return of a call of combo_book
ComboReturned == ret # <<>> /\ ret.op = "combo_book"

\* the label the join map gives a pair: the joined pair of the first row that
\* names it as an input, else the pair itself
TargetLabel(pair, joinedPs) ==
    IF \E k \in DOMAIN joinedPs : pair \in {joinedPs[k].inp1, joinedPs[k].inp2}
    THEN joinedPs[CHOOSE k \in DOMAIN joinedPs :
                    /\ pair \in {joinedPs[k].inp1, joinedPs[k].inp2}
                    /\ \A j \in 1..(k - 1) :
                          pair \notin {joinedPs[j].inp1, joinedPs[j].inp2}].joined
    ELSE pair

\* the one book served from the venue's book `src`, inverted or not
ServedFrom(src, inv) ==
    /\ Len(ret.books) = 1
    /\ src # NoBook
    /\ ret.src = src
    /\ ret.books[1] = aggIf(ret.aggLevels,
                            takerFees([(IF inv THEN inverseBook(src, ret.debug) ELSE src)
                                          EXCEPT !.pair = ret.want],
                                      ret.exch, inv),
                            ret.debug)

\* C1 (dispatch priority of combo_book): a known target label is served by one
\* book of that pair, not inverted; else a known inverse target label by one book,
\* the inversion of that pair; the pair is synthesized only when neither label is
\* known; every returned book carries the wanted pair.
C1_DispatchPriority ==
    ComboReturned =>
        LET target == TargetLabel(ret.want, ret.joinedPs)
            inv_target == TargetLabel(ReversePair(ret.want), ret.joinedPs)
            o == obsUnion(obs, merged)
        IN  /\ target \in ret.known =>
                /\ ret.branch = "known"
                /\ ServedFrom(get_exch_book(ret.exch, target, o, FALSE), FALSE)
            /\ (target \notin ret.known /\ inv_target \in ret.known) =>
                /\ ret.branch = "inverse"
                /\ ServedFrom(get_exch_book(ret.exch, inv_target, o, FALSE), TRUE)
            /\ ret.branch = "synth" <=>
                  (target \notin ret.known /\ inv_target \notin ret.known)
            /\ \A k \in DOMAIN ret.books : ret.books[k].pair = ret.want

\* a pair served under another label: the join map sends the wanted pair to the
\* joined pair, which the venue lists
C1_Witness ==
    /\ ComboReturned
    /\ ret.branch = "known"
    /\ TargetLabel(ret.want, ret.joinedPs) # ret.want
    /\ Len(ret.books) = 1
    /\ ret.books[1].pair = ret.want
    /\ ret.src.pair # ret.want

\* the first row of the case table that matches the component pairs
FirstRow(p1, p2) ==
    LET b1 == SplitPair(p1)[1]
        q1 == SplitPair(p1)[2]
        b2 == SplitPair(p2)[1]
        q2 == SplitPair(p2)[2]
    IN  IF q1 = q2 THEN "common_quote"
        ELSE IF b1 = b2 THEN "common_base"
        ELSE IF q1 = b2 THEN "quote_base"
        ELSE IF b1 = q2 THEN "base_quote"
        ELSE "None"

\* the sides of (p1, p2) a row takes for the asks and for the bids
RowSides(name) ==
    CASE name = "common_quote" -> [asks |-> <<"asks", "bids">>, bids |-> <<"bids", "asks">>]
      [] name = "common_base" -> [asks |-> <<"bids", "asks">>, bids |-> <<"asks", "bids">>]
      [] name = "quote_base" -> [asks |-> <<"asks", "asks">>, bids |-> <<"bids", "bids">>]
      [] name = "base_quote" -> [asks |-> <<"bids", "bids">>, bids |-> <<"asks", "asks">>]

RowTraversal(name) == IF name \in {"common_quote", "quote_base"} THEN "quote" ELSE "base"

\* the tuples of a synthesis whose two books were found
CasedTuples ==
    IF ComboReturned
    THEN {k \in DOMAIN ret.trace : ret.trace[k].case # "skipped"}
    ELSE {}

\* C2 (case table): the case of a tuple is the first matching row in the order
\* q1 = q2, b1 = b2, q1 = b2, b1 = q2, with that row's sides for the asks and the
\* bids; common_quote and quote_base run the quote traversal, common_base and
\* base_quote the base traversal; a tuple without a case emits no book.
C2_CaseTable ==
    \A k \in CasedTuples :
        LET t == ret.trace[k]
            row == FirstRow(t.p1, t.p2)
        IN  /\ t.case = row
            /\ row = "None" => ~t.emitted /\ t.traversal = "none"
            /\ row # "None" =>
                /\ t.asks = RowSides(row).asks
                /\ t.bids = RowSides(row).bids
                /\ t.traversal = RowTraversal(row)

\* a tuple that matches the first two rows at once (p1 = p2) and is converted as
\* common_quote, in a synthesis that returned a book
C2_Witness ==
    /\ ComboReturned
    /\ ret.books # <<>>
    /\ \E k \in CasedTuples :
          /\ ret.trace[k].p1 = ret.trace[k].p2
          /\ ret.trace[k].case = "common_quote"
          /\ ret.trace[k].traversal = "quote"
          /\ ret.trace[k].emitted

\* C3 (case selector totality), the original claim: every tuple of find_pairs has
\* a case, whatever the order of the set of bridge currencies.
C3_CaseTotality ==
    \A k \in CasedTuples : ret.trace[k].case # "None"

\* the books of the state: the venues', the merged ones, the returned ones and
\* the book under study
BooksOf(o) == UNION {Range(o[k].books) : k \in DOMAIN o}
AllBooks ==
    BooksOf(obs) \cup BooksOf(merged)
    \cup (IF ComboReturned THEN Range(ret.books) ELSE {})
    \cup (IF book # NoBook THEN {book} ELSE {})

Sorted(b) == IsDesc(b.bids) /\ IsAsc(b.asks)
StrictlySorted(b) == IsStrictDesc(b.bids) /\ IsStrictAsc(b.asks)

\* the call of the log with the operation, when it asked for aggregation
AggregatedBy(op) ==
    \E k \in DOMAIN calls : calls[k].op = op /\ calls[k].aggLevels

\* the books whose last transformation was aggregateLevels
AggregatedBooks ==
    (IF AggregatedBy("multiple_join_exch_obs")
     THEN {b \in BooksOf(obs) : IsJnd(b.exch)} ELSE {})
    \cup (IF AggregatedBy("xExchMerge") THEN BooksOf(merged) ELSE {})
    \cup (IF ComboReturned /\ ret.aggLevels THEN Range(ret.books) ELSE {})
    \cup (IF calls # <<>> /\ calls[Len(calls)].op = "aggregateLevels" THEN {book} ELSE {})

\* C6 (sort invariant): every book has its bids in descending and its asks in
\* ascending price order, strictly so when aggregateLevels was the last
\* transformation applied to it.
C6_SortInvariant ==
    /\ \A b \in AllBooks : Sorted(b)
    /\ \A b \in AggregatedBooks : StrictlySorted(b)

\* a synthesized book of several levels, aggregated from levels of equal price
C6_Witness ==
    /\ ComboReturned
    /\ calls # <<>>
    /\ calls[Len(calls)].op = "aggregateLevels"
    /\ Len(book.asks) >= 2
    /\ Len(calls[Len(calls)].before.asks) > Len(book.asks)

\* level by level, the prices are the source's times the factor, the sizes the
\* source's
PassedThrough(levels, src, factor) ==
    /\ Len(levels) = Len(src)
    /\ \A k \in DOMAIN levels :
        /\ RCmp(levels[k].price, RMul(src[k].price, factor)) = 0
        /\ RCmp(levels[k].size, src[k].size) = 0

\* C7 (known-pair pass-through, S1), the original claim: a pair known on a real
\* venue is returned as one book with every ask at source price * (1 + fee), every
\* bid at source price * (1 - fee) and the sizes unchanged.
C7_KnownPassThrough ==
    (ComboReturned /\ ret.branch = "known" /\ ret.exch \in Range(EXCHANGES)
        /\ ~ret.aggLevels) =>
        LET fee == exchFees(ret.exch, ret.want, FALSE)
        IN  /\ Len(ret.books) = 1
            /\ PassedThrough(ret.books[1].asks, ret.src.asks, RAdd(ROne, fee))
            /\ PassedThrough(ret.books[1].bids, ret.src.bids, RSub(ROne, fee))

-----------------------------------------------------------------------------
(* SpecJoin: snapshots with their timestamps, joined on the venues under the
   join maps and merged across the venues. *)

\* the levels of the snapshots of SpecJoin: S4's asks for ETH-USDC and ETH-DAI,
\* S5's single ask (2000, 1) for ETH-USDC
JoinLevelsOf(pair) ==
    CASE pair = MkPair(ETH, USDC) ->
            [asks |-> <<<<I(2000), I(1)>>>>, bids |-> <<<<I(1999), I(1)>>>>]
      [] pair = MkPair(ETH, DAI) ->
            [asks |-> <<<<I(2001), I(2)>>>>, bids |-> <<<<I(1999), I(2)>>>>]
      [] pair = MkPair(BTC, USDC) ->
            [asks |-> <<<<I(30), I(1)>>>>, bids |-> <<<<I(29), I(1)>>>>]
      [] pair = MkPair(BTC, DAI) ->
            [asks |-> <<<<I(31), I(1)>>>>, bids |-> <<<<I(28), I(1)>>>>]
      [] OTHER ->
            [asks |-> <<<<I(2002), I(1)>>>>, bids |-> <<<<I(1998), I(1)>>>>]

\* the snapshot of a pair on a venue, taken at ts
JoinSnapshot(exch, pair, ts) ==
    LET l == JoinLevelsOf(pair)
    IN  OrderBookItem(exch, pair, ts,
            [k \in DOMAIN l.bids |-> Entry(l.bids[k][1], l.bids[k][2], exch, <<>>)],
            [k \in DOMAIN l.asks |-> Entry(l.asks[k][1], l.asks[k][2], exch, <<>>)])

\* the snapshots' times: those of the pairs quoted in DAI, and of the others
SnapshotTimes == {<<1, 1>>, <<1, 2>>, <<2, 1>>}

\* the fetched venues with the pairs each venue answered, in the order of the
\* answers
JoinFetches ==
    {<<[name |-> binance, pairs |-> <<MkPair(ETH, USDC), MkPair(ETH, DAI)>>]>>,
     <<[name |-> binance, pairs |-> <<MkPair(ETH, DAI), MkPair(ETH, USDC)>>]>>,
     <<[name |-> coinbase, pairs |-> <<MkPair(ETH, USDC)>>],
       [name |-> okx, pairs |-> <<MkPair(ETH, USDC)>>]>>,
     <<[name |-> binance, pairs |-> <<MkPair(ETH, USDC), MkPair(ETH, DAI),
                                      MkPair(ETH, USDT)>>],
       [name |-> okx, pairs |-> <<MkPair(ETH, DAI), MkPair(ETH, USDC)>>]>>,
     <<[name |-> binance, pairs |-> <<MkPair(ETH, USDC), MkPair(ETH, DAI),
                                      MkPair(BTC, USDC), MkPair(BTC, DAI)>>],
       [name |-> okx, pairs |-> <<MkPair(ETH, USDC), MkPair(ETH, DAI),
                                  MkPair(BTC, USDC)>>]>>,
     <<[name |-> binance, pairs |-> <<MkPair(ETH, USDC)>>],
       [name |-> okx, pairs |-> <<MkPair(ETH, USDC)>>],
       [name |-> coinbase, pairs |-> <<MkPair(ETH, USDC)>>]>>}

\* get_all_books: the books of the answers, in their order
JoinObsOf(f, ts) ==
    [v \in DOMAIN f |->
        [name |-> f[v].name,
         books |-> [k \in DOMAIN f[v].pairs |->
                      JoinSnapshot(f[v].name, f[v].pairs[k],
                                   IF SplitPair(f[v].pairs[k])[2] = DAI
                                   THEN ts[2] ELSE ts[1])]]]

\* the join maps: ETH-USDC with ETH-DAI under the label of the first pair, of
\* the second pair or a new one, and the two rows of the test driver
JoinMaps ==
    {<<[joined |-> l, inp1 |-> MkPair(ETH, USDC), inp2 |-> MkPair(ETH, DAI)]>> :
        l \in {MkPair(ETH, USDC), MkPair(ETH, DAI), MkPair(ETH, BUSD)}}
    \cup {<<[joined |-> MkPair(ETH, USDC), inp1 |-> MkPair(ETH, USDC),
             inp2 |-> MkPair(ETH, DAI)],
            [joined |-> MkPair(BTC, USDC), inp1 |-> MkPair(BTC, USDC),
             inp2 |-> MkPair(BTC, DAI)]>>}

InitJoin ==
    /\ obs \in {JoinObsOf(f, ts) : f \in JoinFetches, ts \in SnapshotTimes}
    /\ merged = <<>>
    /\ ret = <<>>
    /\ book = NoBook
    /\ calls = <<>>

\* multiple_join_exch_obs(toJoin, obs, venues, keep_both, add_fees, aggLevels),
\* once on the fetched obs
JoinObsCall(toJoin, keep_both, add_fees, aggLevels) ==
    /\ calls = <<>>
    /\ obs' = multiple_join_exch_obs(toJoin, obs, PlainVenues(obs), keep_both, add_fees,
                                     aggLevels)
    /\ calls' = <<[op |-> "multiple_join_exch_obs", toJoin |-> toJoin,
                   keep_both |-> keep_both, add_fees |-> add_fees,
                   aggLevels |-> aggLevels, before |-> obs]>>
    /\ UNCHANGED <<merged, ret, book>>

\* xExchMerge(exchanges, obs, allCombos, aggLevels) on the joined aliases when
\* there are some, else on the venues
MergeObsCall(allCombos, aggLevels) ==
    /\ merged = <<>>
    /\ ret = <<>>
    /\ Len(calls) <= 1
    /\ Len(IF JoinedVenues(obs) # <<>> THEN JoinedVenues(obs) ELSE PlainVenues(obs)) >= 2
    /\ calls' = Append(calls, [op |-> "xExchMerge", allCombos |-> allCombos,
                               aggLevels |-> aggLevels, before |-> obs,
                               exchanges |-> IF JoinedVenues(obs) # <<>>
                                             THEN JoinedVenues(obs) ELSE PlainVenues(obs)])
    /\ IF xExchMergeRaises(calls'[Len(calls')].exchanges, obs, allCombos)
       THEN /\ ret' = [op |-> "xExchMerge", raised |-> TRUE]
            /\ merged' = <<>>
       ELSE /\ ret' = [op |-> "xExchMerge", raised |-> FALSE]
            /\ merged' = xExchMerge(calls'[Len(calls')].exchanges, obs, allCombos,
                                    aggLevels)
    /\ UNCHANGED <<obs, book>>

NextJoin ==
    \/ \E toJoin \in JoinMaps, keep_both, add_fees, aggLevels \in BOOLEAN :
          JoinObsCall(toJoin, keep_both, add_fees, aggLevels)
    \/ \E allCombos, aggLevels \in BOOLEAN : MergeObsCall(allCombos, aggLevels)

SpecJoin == InitJoin /\ [][NextJoin]_vars

-----------------------------------------------------------------------------
(* Claims on the joins and the merges (SpecJoin). *)

\* the join call, once made
Joined == calls # <<>> /\ calls[1].op = "multiple_join_exch_obs"
JoinCall == calls[1]

\* the venues of the join call that held both inputs of the row
HoldsBoth(v, row) ==
    /\ indexOfPair(obsGet(JoinCall.before, v), row.inp1) # 0
    /\ indexOfPair(obsGet(JoinCall.before, v), row.inp2) # 0

\* the snapshot of a pair the venue held before the join
InputOf(v, pair) ==
    obsGet(JoinCall.before, v)[indexOfPair(obsGet(JoinCall.before, v), pair)]

\* the first book of the pair a venue holds in o
InputOfIn(o, v, pair) == obsGet(o, v)[indexOfPair(obsGet(o, v), pair)]

\* the books under the venue's joined alias that the join produced
JoinedBooks(v) ==
    {b \in Range(obsGet(obs, Jnd(v))) : b.exch = Jnd(v)}

\* the number of levels with the size and the origin (and the price, when asked)
CountLevel(levels, x, withPrice) ==
    Cardinality({k \in DOMAIN levels :
                    /\ levels[k].size = x.size
                    /\ levels[k].exch = x.exch
                    /\ withPrice => levels[k].price = x.price})

\* every level of the two inputs is once in the joined side, and nothing else
Conserved(joined, s1, s2, withPrice) ==
    /\ Len(joined) = Len(s1) + Len(s2)
    /\ \A x \in Range(joined) \cup Range(s1) \cup Range(s2) :
          CountLevel(joined, x, withPrice)
              = CountLevel(s1, x, withPrice) + CountLevel(s2, x, withPrice)

\* C11: before aggregation, a book produced by joining p1 and p2 on a venue,
\* with or without fees, has as many bids (asks) as p1 and p2 together, every
\* input level being there once with its size and origin venue (and, without
\* fees, its price) unchanged.
C11_JoinSizeConservation ==
    (Joined /\ ~JoinCall.aggLevels) =>
        \A v \in Range(PlainVenues(JoinCall.before)) :
            \A b \in JoinedBooks(v) :
                \E r \in DOMAIN JoinCall.toJoin :
                    /\ b.pair = JoinCall.toJoin[r].joined
                    /\ HoldsBoth(v, JoinCall.toJoin[r])
                    /\ Conserved(b.bids, InputOf(v, JoinCall.toJoin[r].inp1).bids,
                                 InputOf(v, JoinCall.toJoin[r].inp2).bids,
                                 ~JoinCall.add_fees)
                    /\ Conserved(b.asks, InputOf(v, JoinCall.toJoin[r].inp1).asks,
                                 InputOf(v, JoinCall.toJoin[r].inp2).asks,
                                 ~JoinCall.add_fees)

\* S4: ETH-USDC asks [(2000,1)] joined with ETH-DAI asks [(2001,2)] on binance
C11_Witness ==
    /\ Joined
    /\ ~JoinCall.aggLevels
    /\ ~JoinCall.add_fees
    /\ obsHas(obs, Jnd(binance))
    /\ \E b \in JoinedBooks(binance) :
          /\ b.pair = MkPair(ETH, USDC)
          /\ [k \in DOMAIN b.asks |-> <<b.asks[k].price, b.asks[k].size>>]
                = <<<<I(2000), I(1)>>, <<I(2001), I(2)>>>>
          /\ Len(b.bids) = 2

\* the book holds the levels of both inputs: their sizes, side by side
HoldsLevelsOfBoth(b, p1, p2) ==
    /\ TotSize(b.bids) = RAdd(TotSize(p1.bids), TotSize(p2.bids))
    /\ TotSize(b.asks) = RAdd(TotSize(p1.asks), TotSize(p2.asks))

\* a snapshot of the pair, as fetched from the venue, is under the joined alias
OriginalRemains(v, pair) ==
    \E x \in Range(obsGet(obs, Jnd(v))) : x.pair = pair /\ x.exch = v

\* C12: after the join, for every venue holding both inputs of a row, in both
\* modes and whatever the joined label, the lookup of the joined label under
\* the venue's joined alias yields the joined book, with the levels of both
\* inputs; in replace mode no separate book of p2 remains, in keep_both mode the
\* two originals remain.
C12_JoinedLookup ==
    Joined =>
        \A v \in Range(PlainVenues(JoinCall.before)) :
            \A r \in DOMAIN JoinCall.toJoin :
                HoldsBoth(v, JoinCall.toJoin[r]) =>
                    /\ get_exch_book(Jnd(v), JoinCall.toJoin[r].joined, obs, TRUE).exch
                           = Jnd(v)
                    /\ HoldsLevelsOfBoth(
                           get_exch_book(Jnd(v), JoinCall.toJoin[r].joined, obs, TRUE),
                           InputOf(v, JoinCall.toJoin[r].inp1),
                           InputOf(v, JoinCall.toJoin[r].inp2))
                    /\ IF JoinCall.keep_both
                       THEN /\ OriginalRemains(v, JoinCall.toJoin[r].inp1)
                            /\ OriginalRemains(v, JoinCall.toJoin[r].inp2)
                       ELSE ~OriginalRemains(v, JoinCall.toJoin[r].inp2)

\* C13: after the join, in replace mode as in keep_both mode, the joined book
\* of a row under the venue's joined alias has ts = max(p1.ts, p2.ts), also
\* when p2 is the more recent snapshot.
C13_JoinedTimestamp ==
    Joined =>
        \A v \in Range(PlainVenues(JoinCall.before)) :
            \A r \in DOMAIN JoinCall.toJoin :
                HoldsBoth(v, JoinCall.toJoin[r]) =>
                    \A b \in JoinedBooks(v) :
                        b.pair = JoinCall.toJoin[r].joined =>
                            b.ts = Max2(InputOf(v, JoinCall.toJoin[r].inp1).ts,
                                        InputOf(v, JoinCall.toJoin[r].inp2).ts)

\* the merge call, once it has returned
Merged == ret # <<>> /\ ret.op = "xExchMerge" /\ ~ret.raised
MergeCall == calls[Len(calls)]

\* the venues of V at the positions S, in the order of V
SubList(V, S) == SelectSeq(V, LAMBDA e : \E k \in S : V[k] = e)

\* the keys the result is to have: "-".join(V), or one per subset of two venues
\* or more
MergeKeys(V, allCombos) ==
    IF allCombos
    THEN {JoinExch(SubList(V, S)) : S \in {T \in SUBSET DOMAIN V : Cardinality(T) >= 2}}
    ELSE {JoinExch(V)}

\* the venues behind a key
VenuesOf(V, key) ==
    CHOOSE j \in {SubList(V, S) : S \in SUBSET DOMAIN V} : JoinExch(j) = key

\* the pairs every venue of V holds
CommonTo(V, o) ==
    {p \in UNION {{b.pair : b \in Range(obsGet(o, V[k]))} : k \in DOMAIN V} :
        \A k \in DOMAIN V : \E b \in Range(obsGet(o, V[k])) : b.pair = p}

\* half a unit of the second decimal, the coarsest rounding of a price
HalfCent == Q(1, 200)

\* the level is in the side with its size and origin, its price moved by the
\* origin venue's fee for the pair (price * fee, up for asks, down for bids)
FoldedIn(s, side, pair, sign) ==
    \E k \in DOMAIN side :
        /\ side[k].exch = s.exch
        /\ side[k].size = s.size
        /\ Within(RSub(side[k].price, s.price),
                  RMul(I(sign), RMul(s.price, exchFees(s.exch, pair, FALSE))),
                  HalfCent)

\* the side of the merged book is the fee-adjusted levels of the pair's books on
\* the venues j
MergedSide(m, side, j, o, sign) ==
    /\ Len(Side(m, side)) = Len(Flatten([k \in DOMAIN j |->
                                Side(InputOfIn(o, j[k], m.pair), side)]))
    /\ \A k \in DOMAIN j :
          \A s \in Range(Side(InputOfIn(o, j[k], m.pair), side)) :
              FoldedIn(s, Side(m, side), m.pair, sign)

\* the entry holds one book per common pair, built from the pair's books on its
\* venues
MergedEntry(e, V, o, aggLevels) ==
    /\ Len(e.books) = Cardinality(CommonTo(V, o))
    /\ \A p \in CommonTo(V, o) :
          \E k \in DOMAIN e.books :
              /\ e.books[k].pair = p
              /\ e.books[k].exch = e.name
              /\ Sorted(e.books[k])
              /\ ~aggLevels =>
                    /\ MergedSide(e.books[k], "asks", VenuesOf(V, e.name), o, 1)
                    /\ MergedSide(e.books[k], "bids", VenuesOf(V, e.name), o, -1)

\* C14: the result of xExchMerge has one entry keyed "-".join(V), or with
\* allCombos one entry per subset of V of two venues or more keyed in input
\* order; each entry holds one book per pair common to all venues of V, whose
\* levels are the levels of that pair's books on the entry's venues with the
\* origin venue's taker fee folded in (asks up, bids down), size and origin
\* unchanged, sorted.
C14_MergeResult ==
    Merged =>
        /\ Len(merged) = Cardinality(MergeKeys(MergeCall.exchanges, MergeCall.allCombos))
        /\ {merged[k].name : k \in DOMAIN merged}
              = MergeKeys(MergeCall.exchanges, MergeCall.allCombos)
        /\ \A k \in DOMAIN merged :
              MergedEntry(merged[k], MergeCall.exchanges, MergeCall.before,
                          MergeCall.aggLevels)

\* the books of the pair a venue holds in o
BooksOfPair(o, v, pair) == {b \in Range(obsGet(o, v)) : b.pair = pair}

\* the origins and sizes of the levels of a set of books, on both sides
LevelsOfBooks(bs) ==
    UNION {{<<"bids", b.bids[k].exch, b.bids[k].size>> : k \in DOMAIN b.bids}
           \cup {<<"asks", b.asks[k].exch, b.asks[k].size>> : k \in DOMAIN b.asks} :
           b \in bs}

\* the merged book is made of one book of its pair per venue of j
AlignedOn(m, j, o) ==
    \E pick \in [DOMAIN j -> UNION {BooksOfPair(o, j[k], m.pair) : k \in DOMAIN j}] :
        /\ \A k \in DOMAIN j : pick[k] \in BooksOfPair(o, j[k], m.pair)
        /\ Len(m.bids) <= Len(Flatten([k \in DOMAIN j |-> pick[k].bids]))
        /\ Len(m.asks) <= Len(Flatten([k \in DOMAIN j |-> pick[k].asks]))
        /\ LevelsOfBooks({m}) \subseteq LevelsOfBooks({pick[k] : k \in DOMAIN j})

\* C15: whatever the obs, venues with several books of one pair label or with
\* different numbers of books per pair included, every book xExchMerge emits
\* is built only from input books of the merged book's own pair, one per venue
\* of the combination.
C15_MergeAlignment ==
    (Merged /\ ~MergeCall.aggLevels) =>
        \A e \in DOMAIN merged :
            \A k \in DOMAIN merged[e].books :
                AlignedOn(merged[e].books[k],
                          VenuesOf(MergeCall.exchanges, merged[e].name),
                          MergeCall.before)

-----------------------------------------------------------------------------
(* orderbook.py: the order flow imbalance between two snapshots, and SpecOfi,
   which applies it to bounded snapshots. *)

\* get_price_size(prices, idx), idx counted from 0: <<price, size>>
get_price_size(prices, idx) ==
    IF idx < Len(prices) THEN <<prices[idx + 1].price, prices[idx + 1].size>>
    ELSE <<RZero, RZero>>

\* a bid delta that ignores the price move, and the three branches of the bid
\* loop
deltaBidSizeChange(prev, curr) == RSub(curr[2], prev[2])
deltaBid(prev, curr) ==
    IF RGt(curr[1], prev[1]) THEN curr[2]
    ELSE IF curr[1] = prev[1] THEN RSub(curr[2], prev[2])
    ELSE RSub(RZero, prev[2])

\* an ask delta that follows the bid rule, and the three branches of the ask
\* loop
deltaAskAsBid(prev, curr) == deltaBid(prev, curr)
deltaAsk(prev, curr) ==
    IF RGt(curr[1], prev[1]) THEN RSub(RZero, prev[2])
    ELSE IF curr[1] = prev[1] THEN RSub(curr[2], prev[2])
    ELSE curr[2]

\* the two loops over range(top_n), from rank i on, with the totals so far
RECURSIVE OfiBidLoop(_, _, _, _, _)
OfiBidLoop(prev_bids, bids, top_n, i, total) ==
    IF i >= top_n THEN total
    ELSE OfiBidLoop(prev_bids, bids, top_n, i + 1,
                    RAdd(total, deltaBid(get_price_size(prev_bids, i),
                                         get_price_size(bids, i))))

RECURSIVE OfiAskLoop(_, _, _, _, _)
OfiAskLoop(prev_asks, asks, top_n, i, total) ==
    IF i >= top_n THEN total
    ELSE OfiAskLoop(prev_asks, asks, top_n, i + 1,
                    RAdd(total, deltaAsk(get_price_size(prev_asks, i),
                                         get_price_size(asks, i))))

\* orderFlowImbalance(self, prev_bids, prev_asks, top_n)
orderFlowImbalance(b, prev_bids, prev_asks, top_n) ==
    RSub(OfiBidLoop(prev_bids, b.bids, top_n, 0, RZero),
         OfiAskLoop(prev_asks, b.asks, top_n, 0, RZero))

\* the snapshots of SpecOfi: the bids and asks of S6, before and after, and
\* shorter, longer and empty sides
OfiBids ==
    {<<>>,
     <<<<I(100), I(5)>>>>,
     <<<<I(100), I(5)>>, <<I(99), I(3)>>>>,
     <<<<I(101), I(4)>>, <<I(100), I(5)>>>>,
     <<<<I(101), I(4)>>, <<I(99), I(2)>>>>,
     <<<<I(101), I(4)>>, <<I(100), I(5)>>, <<I(99), I(3)>>>>}
OfiAsks ==
    {<<>>,
     <<<<I(102), I(2)>>, <<I(103), I(1)>>>>,
     <<<<I(102), I(1)>>, <<I(104), I(1)>>>>,
     <<<<I(103), I(1)>>>>}

\* a snapshot of ETH-USDT on okx with the sides
OfiBook(bids, asks, ts) ==
    OrderBookItem(okx, MkPair(ETH, USDT), ts,
        [k \in DOMAIN bids |-> Entry(bids[k][1], bids[k][2], okx, <<>>)],
        [k \in DOMAIN asks |-> Entry(asks[k][1], asks[k][2], okx, <<>>)])

\* the ranks asked for
OfiTopN == 1..(MaxLevels + 1)

InitOfi ==
    /\ book \in {OfiBook(bids, asks, 2) : bids \in OfiBids, asks \in OfiAsks}
    /\ obs = <<>>
    /\ merged = <<>>
    /\ ret = <<>>
    /\ calls = <<>>

\* book.orderFlowImbalance(prev.bids, prev.asks, top_n) against an earlier
\* snapshot
OrderFlowImbalanceCall(prev, top_n) ==
    /\ ret' = [op |-> "orderFlowImbalance", prev_bids |-> prev.bids,
               prev_asks |-> prev.asks, top_n |-> top_n,
               value |-> orderFlowImbalance(book, prev.bids, prev.asks, top_n)]
    /\ calls' = <<[op |-> "orderFlowImbalance"]>>
    /\ UNCHANGED <<obs, merged, book>>

NextOfi ==
    \E bids \in OfiBids, asks \in OfiAsks, top_n \in OfiTopN :
        OrderFlowImbalanceCall(OfiBook(bids, asks, 1), top_n)

SpecOfi == InitOfi /\ [][NextOfi]_vars

\* the call has returned
OfiReturned == ret # <<>> /\ ret.op = "orderFlowImbalance"

\* <<price, size>> at a rank counted from 1, (0, 0) past the end of the side
AtRank(levels, i) ==
    IF i \in DOMAIN levels THEN <<levels[i].price, levels[i].size>> ELSE <<RZero, RZero>>

\* the sum of f over the ranks 1..n
RECURSIVE SumRanks(_, _)
SumRanks(f, n) == IF n = 0 THEN RZero ELSE RAdd(f[n], SumRanks(f, n - 1))

\* the sign of curr.price - prev.price at a rank
Move(prev, curr, i) == RCmp(AtRank(curr, i)[1], AtRank(prev, i)[1])

\* the rule of the bid delta, and of the ask delta, at a rank
BidRule(prev, curr, i) ==
    CASE Move(prev, curr, i) > 0 -> AtRank(curr, i)[2]
      [] Move(prev, curr, i) = 0 -> RSub(AtRank(curr, i)[2], AtRank(prev, i)[2])
      [] Move(prev, curr, i) < 0 -> RSub(RZero, AtRank(prev, i)[2])
AskRule(prev, curr, i) ==
    CASE Move(prev, curr, i) > 0 -> RSub(RZero, AtRank(prev, i)[2])
      [] Move(prev, curr, i) = 0 -> RSub(AtRank(curr, i)[2], AtRank(prev, i)[2])
      [] Move(prev, curr, i) < 0 -> AtRank(curr, i)[2]

\* C16: orderFlowImbalance(prev_bids, prev_asks, n) is the sum of the bid deltas
\* minus the sum of the ask deltas over the first n ranks, a missing rank
\* counting as (0, 0); bid delta: +curr.size on a higher price, curr.size -
\* prev.size on an equal price, -prev.size on a lower one; ask delta mirrored.
C16_OfiRule ==
    OfiReturned =>
        ret.value = RSub(SumRanks([i \in 1..ret.top_n |->
                                      BidRule(ret.prev_bids, book.bids, i)], ret.top_n),
                         SumRanks([i \in 1..ret.top_n |->
                                      AskRule(ret.prev_asks, book.asks, i)], ret.top_n))

\* a call with a rank missing on one snapshot and an ask price that moved
C16_Witness ==
    /\ OfiReturned
    /\ ret.top_n > Len(book.bids)
    /\ ret.top_n <= Len(ret.prev_bids)
    /\ \E i \in 1..ret.top_n : Move(ret.prev_asks, book.asks, i) > 0
    /\ \E i \in 1..ret.top_n : Move(ret.prev_asks, book.asks, i) < 0

\* the call of S6
IsS6 ==
    /\ OfiReturned
    /\ ret.top_n = 2
    /\ ret.prev_bids = OfiBook(<<<<I(100), I(5)>>, <<I(99), I(3)>>>>, <<>>, 1).bids
    /\ book.bids = OfiBook(<<<<I(101), I(4)>>, <<I(100), I(5)>>>>, <<>>, 2).bids
    /\ ret.prev_asks = OfiBook(<<>>, <<<<I(102), I(2)>>, <<I(103), I(1)>>>>, 1).asks
    /\ book.asks = ret.prev_asks

\* C17 as stated: on S6 orderFlowImbalance returns 1.
C17_S6ReturnsOne == IsS6 => ret.value = I(1)

\* C17, amended: on S6 orderFlowImbalance returns 9, both bid ranks having
\* moved up (+4 and +5) and the asks being unchanged.
C17_S6ReturnsNine == IsS6 => ret.value = I(9)

C17_Witness == IsS6 /\ ret.value = I(9)

-----------------------------------------------------------------------------
(* SpecDebug: the calls of combo_book with the debug flag off and on. *)

\* combo_book(want, exch, obs | merged, joinedPs, debug, aggLevels), the orders
\* list(set(...)) gave being kept with the call
ComboBookDebugCall(want, exch, joinedPs, debug, aggLevels) ==
    /\ ret = <<>>
    /\ obsHas(obsUnion(obs, merged), exch)
    /\ \E known_pairs \in knownOrders(want, exch, obsUnion(obs, merged), joinedPs) :
       \E quotes_order \in Perms(commonQuotes(want, known_pairs)) :
          /\ ret' = [op |-> "combo_book", want |-> want, exch |-> exch,
                     joinedPs |-> joinedPs, debug |-> debug, aggLevels |-> aggLevels,
                     known |-> Range(known_pairs)] @@
                    combo_book(want, exch, obsUnion(obs, merged), joinedPs, debug,
                               aggLevels, known_pairs, quotes_order)
          /\ calls' = Append(calls, [op |-> "combo_book", known_pairs |-> known_pairs,
                                     quotes_order |-> quotes_order])
    /\ book' = IF ret'.books = <<>> THEN NoBook ELSE ret'.books[1]
    /\ UNCHANGED <<obs, merged>>

NextDebug ==
    \/ \E keep_both, aggLevels \in BOOLEAN : MultipleJoinCall(keep_both, FALSE, aggLevels)
    \/ \E allCombos, aggLevels \in BOOLEAN : XExchMergeCall(allCombos, aggLevels)
    \/ \E want \in Wants, exch \in Range(obsKeys(obsUnion(obs, merged))),
          joinedPs \in {<<>>, ToJoin}, debug, aggLevels \in BOOLEAN :
          ComboBookDebugCall(want, exch, joinedPs, debug, aggLevels)

SpecDebug == Init /\ [][NextDebug]_vars

\* the pair of a book and the prices, sizes and origins of its levels
Ladder(b) ==
    [pair |-> b.pair,
     asks |-> [k \in DOMAIN b.asks |-> <<b.asks[k].price, b.asks[k].size, b.asks[k].exch>>],
     bids |-> [k \in DOMAIN b.bids |-> <<b.bids[k].price, b.bids[k].size, b.bids[k].exch>>]]
Ladders2(books) == [k \in DOMAIN books |-> Ladder(books[k])]

\* the same call with the debug flag off
WithoutDebug ==
    combo_book(ret.want, ret.exch, obsUnion(obs, merged), ret.joinedPs, FALSE,
               ret.aggLevels, calls[Len(calls)].known_pairs,
               calls[Len(calls)].quotes_order)

\* C18: a call of combo_book with debug = true completes without an error and
\* returns the books the same call returns with debug = false: the same pairs,
\* prices, sizes and origins.
C18_DebugOnlyTrails ==
    (ComboReturned /\ ret.debug) =>
        /\ ~ret.raised
        /\ ~WithoutDebug.raised
        /\ Ladders2(ret.books) = Ladders2(WithoutDebug.books)

-----------------------------------------------------------------------------
(* SpecFetch: obs as get_all_books leaves it when fetches fail, a venue
   keeping the empty list it starts with, and the calls of combo_book. *)

\* the pairs a venue answered for: none when all its fetches failed
FetchAnswers ==
    {<<>>,
     <<MkPair(ETH, USDT)>>,
     <<MkPair(KNC, USDT), MkPair(ETH, USDT)>>,
     <<MkPair(KNC, BTC), MkPair(BTC, DAI)>>}

\* get_all_books: obs = {i: [] for i in exchs}, then the books of the answers
ObsAnswered(venues, answers) ==
    [v \in DOMAIN venues |->
        [name |-> venues[v],
         books |-> [k \in DOMAIN answers[v] |-> SnapshotOf(venues[v], answers[v][k])]]]

FetchVenues == {<<okx>>, <<binance, okx>>, <<okx, binance>>}

InitFetch ==
    /\ obs \in {ObsAnswered(vs, a) : vs \in FetchVenues, a \in [1..2 -> FetchAnswers]}
    /\ merged = <<>>
    /\ ret = <<>>
    /\ book = NoBook
    /\ calls = <<>>

NextFetch ==
    \E want \in Wants, exch \in Range(obsKeys(obs)), aggLevels \in BOOLEAN :
        ComboBookCall(want, exch, <<>>, FALSE, aggLevels)

SpecFetch == InitFetch /\ [][NextFetch]_vars

\* the currencies of a pair
Currencies(p) == {SplitPair(p)[1], SplitPair(p)[2]}

\* two known pairs give the wanted pair through a third currency
Components(want, known) ==
    {pq \in known \X known :
        /\ Cardinality(Currencies(pq[1]) \cup Currencies(pq[2])) = 3
        /\ Currencies(want) \subseteq Currencies(pq[1]) \cup Currencies(pq[2])
        /\ ~(Currencies(want) \subseteq Currencies(pq[1]))
        /\ ~(Currencies(want) \subseteq Currencies(pq[2]))}

\* C19: for every obs holding the requested venue, whatever its other venues
\* hold (a first venue without books included), combo_book returns no books
\* and raises nothing when the wanted pair is neither known, nor known
\* inverted, nor to be had from two known pairs.
C19_UnavailableNotFatal ==
    (/\ ComboReturned
     /\ ret.want \notin ret.known
     /\ ReversePair(ret.want) \notin ret.known
     /\ Components(ret.want, ret.known) = {}) =>
        /\ ~ret.raised
        /\ ret.books = <<>>

-----------------------------------------------------------------------------
(* SpecFees: the fee lookups of the catalog, on the venues and on the names
   derived from them. *)

\* the names looked up: the venues, their joined aliases, and the names with
\* the suffix the lookup strips
FeeNames ==
    UNION {{EXCHANGES[k], Jnd(EXCHANGES[k]), JoinedName(EXCHANGES[k])} :
           k \in DOMAIN EXCHANGES}

\* the pairs looked up: the base pairs, no pair, and a pair outside the list
FeePairs == Range(BASE_PAIRS) \cup {<<>>, MkPair(ETH, BUSD)}

InitFees ==
    /\ obs = <<>>
    /\ merged = <<>>
    /\ ret = <<>>
    /\ book = NoBook
    /\ calls = <<>>

\* xc.exchFees(exch, pair, inverse)
ExchFeesCall(exch, pair, inv) ==
    /\ ret' = [op |-> "exchFees", exch |-> exch, pair |-> pair, inverse |-> inv,
               raised |-> exchFeesRaises(exch, pair, inv),
               rate |-> IF exchFeesRaises(exch, pair, inv) THEN RZero
                        ELSE exchFees(exch, pair, inv)]
    /\ calls' = <<[op |-> "exchFees"]>>
    /\ UNCHANGED <<obs, merged, book>>

NextFees ==
    \E exch \in FeeNames, pair \in FeePairs, inv \in BOOLEAN :
        ExchFeesCall(exch, pair, inv)

SpecFees == InitFees /\ [][NextFees]_vars

\* the taker rate of the fee table: the stables rate for a pair of the venue's
\* stable set, else the spot rate, or the venue's flat rate
TableRate(v, p) ==
    CASE v = coinbase -> IF p \in COINBASE_STABLES THEN FeeCoinbaseStables
                         ELSE FeeCoinbaseSpot
      [] v = binance -> IF p \in BINANCE_STABLES THEN FeeBinanceStables
                        ELSE FeeBinanceSpot
      [] v = okx -> FeeOkx

\* C20: for every configured venue v and pair p the venue has a rate for, the
\* lookup exchFees(v + "_jnd", p) raises no error and returns the rate of v:
\* the stables rate if p is in v's stable set, else the spot (or flat) rate.
C20_DerivedVenueFees ==
    \A k \in DOMAIN EXCHANGES :
        (/\ ret # <<>>
         /\ ret.op = "exchFees"
         /\ ret.exch = Jnd(EXCHANGES[k])
         /\ ~ret.inverse
         /\ ret.pair \in Range(BASE_PAIRS) \cup {<<>>}) =>
            /\ ~ret.raised
            /\ ret.rate = TableRate(EXCHANGES[k], ret.pair)

-----------------------------------------------------------------------------
(* booksGetter.py: get_single_pair, one request with its retries. SpecRetry:
   ret is the task (its position, the loop's attempt, the sleeps made, the
   responses of the venue), calls the outcomes of the attempts made. *)

\* the largest book_retries tried
MaxRetries == 3

\* the outcomes of `async with session.get(...)` and `response.json()`: a
\* payload, asyncio.TimeoutError, aiohttp.ClientConnectionError, and any other
\* exception
FetchOutcomes == {"payload", "timeout", "drop", "other"}

RECURSIVE Pow2(_)
Pow2(k) == IF k = 0 THEN 1 ELSE 2 * Pow2(k - 1)

\* res = {"pair": pair, "data": resp}; self.responses[exch].append(res)
appendResponse(task, data) ==
    [task EXCEPT !.pc = "done",
                 !.responses = Append(@, [pair |-> task.pair, data |-> data])]

InitRetry ==
    /\ ret \in {[op |-> "get_single_pair", exch |-> EXCHANGES[e],
                  pair |-> MkPair(ETH, USDT), book_retries |-> r, init_backoff |-> b,
                  pc |-> "get", attempt |-> 0,
                  slept |-> <<>>, responses |-> <<>>] :
                 e \in DOMAIN EXCHANGES, r \in 1..MaxRetries, b \in {1, 2, 3}}
    /\ calls = <<>>
    /\ obs = <<>>
    /\ merged = <<>>
    /\ book = NoBook

\* one pass of the try block: a payload or an exception other than the timeout
\* breaks out of the loop and the record is appended; a timeout goes on to the
\* sleep
AttemptCall(outcome) ==
    /\ ret.pc = "get"
    /\ calls' = Append(calls, outcome)
    /\ ret' = CASE outcome = "payload" -> appendResponse(ret, "payload")
                 [] outcome = "timeout" -> [ret EXCEPT !.pc = "sleep"]
                 [] OTHER -> appendResponse(ret, "empty")
    /\ UNCHANGED <<obs, merged, book>>

\* await asyncio.sleep(self.init_backoff * (2**attempt)), then the next pass of
\* the loop, or its else branch when range(book_retries) is used up: resp = {},
\* and the record is appended
BackoffCall ==
    /\ ret.pc = "sleep"
    /\ ret' = IF ret.attempt + 1 < ret.book_retries
              THEN [ret EXCEPT !.slept = Append(@, ret.init_backoff * Pow2(ret.attempt)),
                               !.attempt = @ + 1,
                               !.pc = "get"]
              ELSE appendResponse(
                       [ret EXCEPT !.slept = Append(@, ret.init_backoff * Pow2(ret.attempt)),
                                   !.attempt = @ + 1],
                       "empty")
    /\ UNCHANGED <<obs, merged, book, calls>>

NextRetry ==
    \/ \E outcome \in FetchOutcomes : AttemptCall(outcome)
    \/ BackoffCall

SpecRetry == InitRetry /\ [][NextRetry]_vars

\* the failures of the transport
TransportFailures == {"timeout", "drop"}

\* C21: a request makes at most book_retries attempts; after an attempt that
\* failed on the transport (timeout or connection drop) it waits init_backoff *
\* 2^attempt and tries again while attempts remain; the empty payload is
\* recorded only after book_retries attempts have failed; every outcome leaves
\* exactly one response record for the pair.
C21_RetryProtocol ==
    (\A k \in DOMAIN calls : calls[k] \in TransportFailures \cup {"payload"}) =>
        /\ Len(calls) <= ret.book_retries
        /\ Len(ret.responses) = IF ret.pc = "done" THEN 1 ELSE 0
        /\ \A k \in DOMAIN ret.slept : ret.slept[k] = ret.init_backoff * Pow2(k - 1)
        /\ ret.pc = "get" => Len(ret.slept) = Len(calls)
        /\ (ret.pc = "done" /\ ret.responses[1].data = "empty") =>
              /\ Len(calls) = ret.book_retries
              /\ \A k \in DOMAIN calls : calls[k] \in TransportFailures

-----------------------------------------------------------------------------
(* SpecSeq: sequences of calls of the pipeline on the same obs.            *)

MaxSeqCalls == 2

SeqWants ==
    {MkPair(KNC, ETH), MkPair(KNC, DAI), MkPair(USDT, ETH), MkPair(ETH, USDT),
     MkPair(ETH, USDC)}

\* the entries of obs (or of merged) in the dict obs | merged as a call left it:
\* the dict of the union is new, its lists of books are those of obs and merged
partOf(part, o) ==
    [k \in DOMAIN part |-> [part[k] EXCEPT !.books = obsGet(o, part[k].name)]]

\* the books (venue, p2) whose cursor a synthesis moved in its first pass
movedBy(exch, trace) ==
    {<<exch, trace[k].p2>> : k \in {j \in DOMAIN trace : /\ "asksEnd" \in DOMAIN trace[j]
                                                        /\ trace[j].asksEnd # IdxAmt0}}

\* the fetched snapshots of the sequences
SeqFetches ==
    {<<(<<okx>>), <<MkPair(KNC, USDT), MkPair(ETH, USDT)>>>>,
     <<(<<okx>>), <<MkPair(KNC, BTC), MkPair(BTC, DAI)>>>>,
     <<(<<binance, okx>>), <<MkPair(ETH, USDC), MkPair(ETH, DAI), MkPair(ETH, USDT)>>>>}

InitSeq ==
    /\ obs \in {ObsOf(f[1], f[2]) : f \in SeqFetches}
    /\ merged = <<>>
    /\ ret = <<>>
    /\ book = NoBook
    /\ calls = <<>>

\* multiple_join_exch_obs(ToJoin, obs, venues, keep_both, add_fees, aggLevels)
SeqJoinCall(keep_both, add_fees, aggLevels) ==
    /\ Len(calls) < MaxSeqCalls
    /\ merged = <<>>
    /\ obs' = multiple_join_exch_obs(ToJoin, obs, PlainVenues(obs), keep_both, add_fees,
                                     aggLevels)
    /\ ret' = [op |-> "multiple_join_exch_obs"]
    /\ calls' = Append(calls, [op |-> "multiple_join_exch_obs", moved |-> {},
                                 add_fees |-> add_fees])
    /\ UNCHANGED <<merged, book>>

\* merged = xExchMerge(exchanges, obs, allCombos, aggLevels): the books merged are
\* copies, and no book of obs is assigned to
SeqMergeCall(allCombos, aggLevels) ==
    /\ Len(calls) < MaxSeqCalls
    /\ merged = <<>>
    /\ Len(IF JoinedVenues(obs) # <<>> THEN JoinedVenues(obs) ELSE PlainVenues(obs)) >= 2
    /\ merged' = xExchMerge(IF JoinedVenues(obs) # <<>> THEN JoinedVenues(obs)
                            ELSE PlainVenues(obs), obs, allCombos, aggLevels)
    /\ ret' = [op |-> "xExchMerge"]
    /\ calls' = Append(calls, [op |-> "xExchMerge", moved |-> {}])
    /\ UNCHANGED <<obs, book>>

\* the state a call of combo_book on obs | merged that returned r leaves
seqReturn(r) ==
    /\ ret' = [f \in DOMAIN r \ {"o"} |-> r[f]]
    /\ obs' = partOf(obs, r.o)
    /\ merged' = partOf(merged, r.o)
    /\ calls' = Append(calls, [op |-> r.op, moved |-> movedBy(r.exch, r.trace)])
    /\ UNCHANGED book

\* combo_book(want, exch, obs | merged, joinedPs, debug, aggLevels)
SeqComboBookCall(want, exch, joinedPs, debug, aggLevels) ==
    /\ Len(calls) < MaxSeqCalls
    /\ obsHas(obsUnion(obs, merged), exch)
    /\ \E known_pairs \in knownOrders(want, exch, obsUnion(obs, merged), joinedPs) :
       \E quotes_order \in Perms(commonQuotes(want, known_pairs)) :
          seqReturn([op |-> "combo_book", want |-> want, exch |-> exch,
                     debug |-> debug, aggLevels |-> aggLevels] @@
                    combo_book(want, exch, obsUnion(obs, merged), joinedPs, debug,
                               aggLevels, known_pairs, quotes_order))

NextSeq ==
    \/ \E keep_both, add_fees, aggLevels \in BOOLEAN :
          SeqJoinCall(keep_both, add_fees, aggLevels)
    \/ \E allCombos, aggLevels \in BOOLEAN : SeqMergeCall(allCombos, aggLevels)
    \/ \E want \in SeqWants, exch \in Range(obsKeys(obsUnion(obs, merged))),
          debug, aggLevels \in BOOLEAN :
          SeqComboBookCall(want, exch, <<>>, debug, aggLevels)

SpecSeq == InitSeq /\ [][NextSeq]_vars

-----------------------------------------------------------------------------
(* The claims on sequences of calls, checked on SpecSeq.                   *)

\* the state is the return of a call of combo_book of a sequence
SeqReturned == ret # <<>> /\ ret.op = "combo_book"

\* the tuples of the returned synthesis whose passes ran
PassedTuples ==
    IF SeqReturned
    THEN {k \in DOMAIN ret.trace : "bidsStart" \in DOMAIN ret.trace[k]}
    ELSE {}

SeqStep == calls' # calls
SeqOp == calls'[Len(calls')].op

\* multiple_join_exch_obs: the venues of obs keep their place and their books, and
\* every other entry of obs is a joined alias
OnlyAliasesAdded ==
    /\ Len(obs') >= Len(obs)
    /\ \A k \in DOMAIN obs : obs'[k].name = obs[k].name
    /\ \A k \in DOMAIN obs : ~IsJnd(obs[k].name) => obs'[k] = obs[k]
    /\ \A k \in DOMAIN obs' : k > Len(obs) => IsJnd(obs'[k].name)
    /\ merged' = merged

\* C26 (snapshots are not mutated): a call of combo_book (and so of get_taker_book
\* and combo_by_conversion) or of xExchMerge leaves every book of obs as it was
\* (pair, venue, timestamp, levels with their debug trails, the four cursors), and
\* a call of multiple_join_exch_obs changes obs by its joined aliases only, at every
\* step of every sequence of calls, with or without debug and aggregation.
C26_SnapshotsNotMutated ==
    [][SeqStep =>
          /\ SeqOp = "combo_book" => obs' = obs /\ merged' = merged
          /\ SeqOp = "xExchMerge" => obs' = obs
          /\ SeqOp = "multiple_join_exch_obs" => OnlyAliasesAdded]_vars

\* after a join that added an alias, a synthesis with debug and aggregation has
\* moved a cursor of the copy of a book of obs
C26_Witness ==
    /\ Len(calls) = 2
    /\ calls[1].op = "multiple_join_exch_obs"
    /\ JoinedVenues(obs) # <<>>
    /\ SeqReturned /\ ret.debug /\ ret.aggLevels /\ ret.books # <<>>
    /\ calls[2].moved # {}

-----------------------------------------------------------------------------
(* SpecCursor: the traversals of SpecWap and the stateless averages.       *)

\* wap_base: the loop that sums price * size over the levels the quantity covers
RECURSIVE WapBaseTot(_, _, _)
WapBaseTot(levels, qty, tot) ==
    IF levels = <<>> THEN tot
    ELSE IF RGe(qty, Head(levels).size)
    THEN WapBaseTot(Tail(levels), RSub(qty, Head(levels).size),
                    RAdd(tot, RMul(Head(levels).price, Head(levels).size)))
    ELSE RAdd(tot, RMul(Head(levels).price, qty))

\* wap_base (base_qty is not 0)
wap_base(b, base_qty, side, incl_fees) ==
    RDiv(WapBaseTot(WapLevels(b, side, incl_fees), base_qty, RZero), base_qty)

\* wap_quote: the loop that sums the sizes the quote quantity buys
RECURSIVE WapQuoteTot(_, _, _)
WapQuoteTot(levels, qty, tot_size) ==
    IF levels = <<>> THEN tot_size
    ELSE IF RGe(qty, RMul(Head(levels).size, Head(levels).price))
    THEN WapQuoteTot(Tail(levels), RSub(qty, RMul(Head(levels).size, Head(levels).price)),
                     RAdd(tot_size, Head(levels).size))
    ELSE RAdd(tot_size, RDiv(qty, Head(levels).price))

\* wap_quote
wapQuoteOf(quote_qty, tot_size) ==
    IF tot_size # RZero THEN RDiv(quote_qty, tot_size) ELSE RZero
wap_quote(b, quote_qty, side, incl_fees) ==
    wapQuoteOf(quote_qty, WapQuoteTot(WapLevels(b, side, incl_fees), quote_qty, RZero))

\* a call of wap_base(qty, side) on the book: it reads the levels only
WapBaseCall(qty, side) ==
    /\ Len(calls) < MaxCalls
    /\ ret' = <<wap_base(book, qty, side, FALSE)>>
    /\ calls' = Append(calls, [op |-> "wap_base", qty |-> qty, side |-> side,
                               before |-> book.base_state[side],
                               after |-> book.base_state[side], res |-> <<>>])
    /\ UNCHANGED <<book, obs, merged>>

\* a call of wap_quote(qty, side) on the book: it reads the levels only
WapQuoteCall(qty, side) ==
    /\ Len(calls) < MaxCalls
    /\ ret' = <<wap_quote(book, qty, side, FALSE)>>
    /\ calls' = Append(calls, [op |-> "wap_quote", qty |-> qty, side |-> side,
                               before |-> book.quote_state[side],
                               after |-> book.quote_state[side], res |-> <<>>])
    /\ UNCHANGED <<book, obs, merged>>

NextCursor ==
    \/ \E qty \in WapQtys, side \in Sides : WapBaseLevelsCall(qty, side)
    \/ \E qty \in WapQtys, side \in Sides : WapQuoteLevelsCall(qty, side)
    \/ ResetWapStateCall
    \/ \E qty \in WapQtys, side \in Sides : WapBaseCall(qty, side)
    \/ \E qty \in WapQtys, side \in Sides : WapQuoteCall(qty, side)

SpecCursor == InitWap /\ [][NextCursor]_vars

OtherSide(side) == IF side = "asks" THEN "bids" ELSE "asks"

\* the call a step of SpecCursor makes
CursorOp == calls'[Len(calls')]

\* C23 (four independent cursors): a call of wap_base_levels or wap_quote_levels on
\* a side changes the cursor of that denomination and side only, and leaves the
\* other three cursors and the levels as they were; wap_base and wap_quote change
\* no cursor; reset_wap_state puts the four cursors at (0, 0).
C23_IndependentCursors ==
    [][calls' # calls =>
          /\ book'.bids = book.bids /\ book'.asks = book.asks
          /\ CursorOp.op = "wap_base_levels" =>
                /\ book'.quote_state = book.quote_state
                /\ book'.base_state[OtherSide(CursorOp.side)]
                      = book.base_state[OtherSide(CursorOp.side)]
          /\ CursorOp.op = "wap_quote_levels" =>
                /\ book'.base_state = book.base_state
                /\ book'.quote_state[OtherSide(CursorOp.side)]
                      = book.quote_state[OtherSide(CursorOp.side)]
          /\ CursorOp.op \in {"wap_base", "wap_quote"} =>
                /\ book'.base_state = book.base_state
                /\ book'.quote_state = book.quote_state
          /\ CursorOp.op = "reset_wap_state" =>
                /\ book'.base_state = LevelsState0
                /\ book'.quote_state = LevelsState0]_vars

\* a base traversal has moved its cursor on a side whose quote cursor an earlier
\* quote traversal had moved, and the two cursors differ
C23_Witness ==
    /\ Len(calls) = 2
    /\ calls[1].op = "wap_quote_levels" /\ calls[1].after # IdxAmt0
    /\ calls[2].op = "wap_base_levels" /\ calls[2].after # calls[2].before
    /\ calls[1].side = calls[2].side
    /\ book.quote_state[calls[1].side] = calls[1].after
    /\ book.base_state[calls[2].side] # book.quote_state[calls[1].side]

\* the four cursors of a book, each with the levels of its side
CursorsOf(b) ==
    {[cur |-> b.base_state[s], levels |-> Side(b, s)] : s \in Sides}
        \cup {[cur |-> b.quote_state[s], levels |-> Side(b, s)] : s \in Sides}

\* a cursor is inside its side: at a level with less than the level consumed, or
\* at the end with nothing consumed
CursorInside(c) ==
    /\ 0 <= c.cur.idx /\ c.cur.idx <= Len(c.levels)
    /\ c.cur.idx = Len(c.levels) => c.cur.qty = RZero
    /\ c.cur.idx < Len(c.levels) =>
          /\ RGe(c.cur.qty, RZero)
          /\ RLt(c.cur.qty, c.levels[c.cur.idx + 1].size)

\* no index of the four cursors goes back
NoIdxBack ==
    \A s \in Sides : /\ book'.base_state[s].idx >= book.base_state[s].idx
                      /\ book'.quote_state[s].idx >= book.quote_state[s].idx

\* C30 (cursor invariant): after any sequence of wap_base_levels, wap_quote_levels
\* and reset_wap_state on a book with positive sizes, each of the four cursors has
\* 0 <= idx <= number of levels, partial 0 when idx is the number of levels and
\* 0 <= partial < size of the level at idx otherwise; and idx goes back through
\* reset_wap_state only.
C30_CursorInvariant ==
    /\ [](\A c \in CursorsOf(book) : CursorInside(c))
    /\ [][(calls' # calls /\ CursorOp.op # "reset_wap_state") => NoIdxBack]_vars

\* a cursor stands inside a level after a second traversal moved it on from where
\* the first had left it, and another stands at the end of its side
C30_Witness ==
    /\ Len(calls) = 2
    /\ calls[1].op = calls[2].op /\ calls[1].side = calls[2].side
    /\ calls[1].after.qty # RZero
    /\ calls[2].after.idx > calls[1].after.idx
    /\ calls[2].after.qty # RZero

-----------------------------------------------------------------------------
(* SpecSynth: two books of one venue, and a call of combo_book that        *)
(* synthesizes the wanted pair in each of the four cases.                  *)

\* the value of a currency, in a common unit; a book of BASE-QUOTE is priced
\* around Value(BASE) / Value(QUOTE)
Value(c) == CASE c = KNC -> I(1) [] c = ETH -> I(2) [] c = BTC -> I(4)
FairPrice(pair) == RDiv(Value(SplitPair(pair)[1]), Value(SplitPair(pair)[2]))

\* the pairs fetched, one list for each case of the synthesis
SynthFetches ==
    {<<MkPair(KNC, BTC), MkPair(ETH, BTC)>>, <<MkPair(ETH, KNC), MkPair(ETH, BTC)>>,
     <<MkPair(KNC, ETH), MkPair(ETH, BTC)>>, <<MkPair(ETH, KNC), MkPair(BTC, ETH)>>}

SynthWants == {MkPair(KNC, ETH), MkPair(KNC, BTC)}

\* the sizes of the levels of a side, best level first
SynthSizes == UNION {[1..n -> {I(1), I(2)}] : n \in 1..MaxLevels}

\* a book that quotes the fair price on every level of both sides, and a book
\* with a spread: asks from the fair price up, bids from half of it down
FlatBook(pair, sizes) ==
    OrderBookItem(okx, pair, 1,
        [k \in DOMAIN sizes |-> Entry(FairPrice(pair), sizes[k], okx, <<>>)],
        [k \in DOMAIN sizes |-> Entry(FairPrice(pair), sizes[k], okx, <<>>)])
SpreadBook(pair, sizes) ==
    OrderBookItem(okx, pair, 1,
        [k \in DOMAIN sizes |-> Entry(RDiv(FairPrice(pair), I(2 * k)), sizes[k], okx, <<>>)],
        [k \in DOMAIN sizes |-> Entry(RMul(FairPrice(pair), I(k)), sizes[k], okx, <<>>)])
SynthBooks(pair) ==
    {FlatBook(pair, s) : s \in SynthSizes} \cup {SpreadBook(pair, s) : s \in SynthSizes}

\* get_all_books: one venue with a snapshot of each pair of the list
SynthObs(f) ==
    {<<[name |-> okx, books |-> <<b1, b2>>]>> :
        b1 \in SynthBooks(f[1]), b2 \in SynthBooks(f[2])}

InitSynth ==
    /\ obs \in UNION {SynthObs(f) : f \in SynthFetches}
    /\ merged = <<>>
    /\ ret = <<>>
    /\ book = NoBook
    /\ calls = <<>>

NextSynth ==
    \E want \in SynthWants, debug, aggLevels \in BOOLEAN :
        ComboBookCall(want, okx, <<>>, debug, aggLevels)

SpecSynth == InitSynth /\ [][NextSynth]_vars

-----------------------------------------------------------------------------
(* The claims on the levels of synthesized books.                          *)

\* the levels of the books a synthesis returned
SynthLevels ==
    IF ComboReturned /\ ret.branch = "synth"
    THEN UNION {Range(ret.books[k].asks) \cup Range(ret.books[k].bids) : k \in DOMAIN ret.books}
    ELSE {}

\* C24 (no zero-size level), the original claim: no level of a synthesized book
\* has size 0; the zero-size sub-level a traversal of p2 returns when the notional
\* of a level of p1 ends exactly at a level boundary of p2 is skipped.
C24_NoZeroSizeLevel ==
    \A l \in SynthLevels : l.size # RZero

\* ---- depth exhaustion in a traversal (C25), under SpecSynth ----

\* the passes combo_by_conversion made in the call that returned: for each tuple
\* whose conversions ran, the asks' pass and the bids' pass with the traversals
\* they made, the cursor they started from and the books they read
SynthTrace == IF ComboReturned /\ ret.branch = "synth" THEN ret.trace ELSE <<>>
passOf(k, l, name, sides, start, steps) ==
    [tuple |-> k, pass |-> name, quote |-> l.traversal = "quote",
     side1 |-> sides[1], side2 |-> sides[2], start |-> start, steps |-> steps,
     ob1 |-> get_exch_book(ret.exch, l.p1, obsUnion(obs, merged), TRUE),
     levels |-> Side(get_exch_book(ret.exch, l.p2, obsUnion(obs, merged), TRUE), sides[2])]
SynthPasses ==
    {passOf(k, SynthTrace[k], "asks", SynthTrace[k].asks, SynthTrace[k].asksStart,
            SynthTrace[k].asksSteps) :
         k \in {j \in DOMAIN SynthTrace : "asksSteps" \in DOMAIN SynthTrace[j]}} \cup
    {passOf(k, SynthTrace[k], "bids", SynthTrace[k].bids, SynthTrace[k].bidsStart,
            SynthTrace[k].bidsSteps) :
         k \in {j \in DOMAIN SynthTrace : "bidsSteps" \in DOMAIN SynthTrace[j]}}

\* the cursor the n-th traversal of a pass started from
cursorBefore(p, n) == IF n = 1 THEN p.start ELSE p.steps[n - 1].after

\* what is left of level k of levels after the cursor cur, and the depth left from
\* level k on, in the denomination of the traversal
leftOf(levels, cur, k) ==
    IF k = cur.idx + 1 THEN RSub(levels[k].size, cur.qty) ELSE levels[k].size
RECURSIVE DepthLeft(_, _, _, _)
DepthLeft(quote, levels, cur, k) ==
    IF k > Len(levels) THEN RZero
    ELSE RAdd(IF quote THEN RMul(leftOf(levels, cur, k), levels[k].price)
              ELSE leftOf(levels, cur, k),
              DepthLeft(quote, levels, cur, k + 1))

\* the n-th traversal of the pass asked for more than the depth left
Exhausted(p, n) ==
    RGt(p.steps[n].qty,
        DepthLeft(p.quote, p.levels, cursorBefore(p, n), cursorBefore(p, n).idx + 1))

\* the number of the book of ret.books the k-th tuple gave, and the number of
\* sub-levels the traversals of a pass returned
bookNo(k) == Cardinality({j \in 1..k : SynthTrace[j].emitted})
RECURSIVE subLevels(_, _)
subLevels(steps, n) == IF n = 0 THEN 0 ELSE Len(steps[n].res) + subLevels(steps, n - 1)

\* C25 (depth exhaustion is not an error): a traversal asked for more than the
\* depth left after the cursor returns one entry for each level left, with what
\* is left of it (none when nothing is left), leaves the cursor at idx = number
\* of levels with partial 0, and raises nothing; in the synthesis the loop goes
\* on over every level of p1, the traversals after it return nothing, the
\* sub-levels already returned stay in the side of the book, and the call completes.
C25_DepthExhaustion ==
    \A p \in SynthPasses : \A n \in DOMAIN p.steps :
        Exhausted(p, n) =>
            /\ Len(p.steps[n].res) = Len(p.levels) - cursorBefore(p, n).idx
            /\ \A m \in DOMAIN p.steps[n].res :
                  /\ p.steps[n].res[m].price = p.levels[cursorBefore(p, n).idx + m].price
                  /\ p.steps[n].res[m].size =
                         leftOf(p.levels, cursorBefore(p, n), cursorBefore(p, n).idx + m)
            /\ p.steps[n].after = [idx |-> Len(p.levels), qty |-> RZero]
            /\ \A n2 \in DOMAIN p.steps : n2 > n => p.steps[n2].res = <<>>
            /\ Len(p.steps) = Len(Side(p.ob1, p.side1))
            /\ ~ret.raised
            /\ SynthTrace[p.tuple].emitted /\ ~ret.aggLevels =>
                  Len(Side(ret.books[bookNo(p.tuple)], p.pass)) =
                      subLevels(p.steps, Len(p.steps))

\* a pass in which a traversal used up the depth that was left and returned some
\* levels, a later level of p1 found nothing, and the book was given all the same
C25_Witness ==
    \E p \in SynthPasses : \E n \in DOMAIN p.steps :
        /\ Exhausted(p, n)
        /\ p.steps[n].res # <<>>
        /\ n < Len(p.steps)
        /\ SynthTrace[p.tuple].emitted
        /\ ~ret.aggLevels
        /\ Len(Side(ret.books[bookNo(p.tuple)], p.pass)) >= 1

\* ---- the prices of a synthesized book (C28, C29), under SpecSynth ----

\* a book that quotes, on every level of both sides, the price the values of its
\* two currencies imply
IsFair(b) ==
    \A l \in Range(b.asks) \cup Range(b.bids) : l.price = FairPrice(b.pair)

\* the n-th traversal of the pass asked for less than the depth left
WithinDepth(p, n) ==
    RLt(p.steps[n].qty,
        DepthLeft(p.quote, p.levels, cursorBefore(p, n), cursorBefore(p, n).idx + 1))

\* the tuples of the call that returned whose two books are fair and in whose
\* passes every traversal asked for less than the depth left
FairTuples ==
    {k \in DOMAIN SynthTrace :
        /\ SynthTrace[k].emitted
        /\ IsFair(get_exch_book(ret.exch, SynthTrace[k].p1, obsUnion(obs, merged), TRUE))
        /\ IsFair(get_exch_book(ret.exch, SynthTrace[k].p2, obsUnion(obs, merged), TRUE))
        /\ \A p \in SynthPasses : p.tuple = k => \A n \in DOMAIN p.steps : WithinDepth(p, n)}

\* the combined fee of the tuple's two books, and the coarsest unit round_digits
\* rounds a price to
tupleFees(k) ==
    comboFees(<<<<ret.exch, SynthTrace[k].p1>>, <<ret.exch, SynthTrace[k].p2>>>>)
PriceUnit == <<1, 100>>

\* price is the fair price of the wanted pair, up to the combined fee and the rounding
NearFair(price, fair, fees) ==
    /\ RLe(RSub(RMul(fair, RSub(I(1), fees)), PriceUnit), price)
    /\ RLe(price, RAdd(RMul(fair, RAdd(I(1), fees)), PriceUnit))

\* C28 (synthesized prices are consistent with the component prices), the original
\* claim: when every component book quotes the single price v(base)/v(quote) and
\* no depth is exhausted, every level of the book synthesized for want =
\* BASE-QUOTE has the price v(BASE)/v(QUOTE), in each of the four cases; the
\* venue's fees are never zero, so the price is compared up to the combined fee
\* and the rounding of the price.
C28_PriceConsistent ==
    \A k \in FairTuples :
        \A l \in Range(ret.books[bookNo(k)].asks) \cup Range(ret.books[bookNo(k)].bids) :
            NearFair(l.price, FairPrice(ret.want), tupleFees(k))

\* the price of a level of a synthesized book before the fee, from the two
\* levels its debug trail names: p1's price over p2's in a quote traversal, their
\* product in a base traversal
preFeePrice(l, quote) ==
    IF quote THEN RDiv(l.debug[1].price, l.debug[2].price)
    ELSE RMul(l.debug[1].price, l.debug[2].price)

\* the tuples of a call with debug and without aggregation that gave a book
\* under a positive combined fee
FeeTuples ==
    IF ComboReturned /\ ret.debug /\ ~ret.aggLevels
    THEN {k \in DOMAIN SynthTrace : SynthTrace[k].emitted /\ RGt(tupleFees(k), RZero)}
    ELSE {}

\* C29 (the combined fee moves every price against the taker), the original
\* claim: every level of a synthesized book made under a positive combined fee
\* has a final price >= its pre-fee price on the asks and <= its pre-fee price
\* on the bids.
C29_FeeAgainstTaker ==
    \A k \in FeeTuples :
        /\ \A l \in Range(ret.books[bookNo(k)].asks) :
              RGe(l.price, preFeePrice(l, SynthTrace[k].traversal = "quote"))
        /\ \A l \in Range(ret.books[bookNo(k)].bids) :
              RLe(l.price, preFeePrice(l, SynthTrace[k].traversal = "quote"))

\* ---- fees folded in once (C27), under SpecSeq ----

\* the levels of the side of the books the venue exch was fetched, as they stand
\* in obs
RawLevels(exch, side) ==
    IF obsHas(obs, exch)
    THEN UNION {Range(Side(obsGet(obs, exch)[k], side)) : k \in DOMAIN obsGet(obs, exch)}
    ELSE {}

\* the most a rounding to the coarsest unit moves a price
HalfUnit == RDiv(PriceUnit, I(2))

\* price is the price of the level raw of its venue, as it was fetched or moved
\* once by the venue's fee against the taker, up to the rounding of the price
ChargedAtMostOnce(price, raw, side, fee) ==
    IF side = "asks"
    THEN /\ RLe(raw.price, price)
         /\ RLe(price, RAdd(RMul(raw.price, RAdd(ROne, fee)), HalfUnit))
    ELSE /\ RLe(price, raw.price)
         /\ RLe(RSub(RMul(raw.price, RSub(ROne, fee)), HalfUnit), price)

\* the sides of the book a call of combo_book returned for a pair the venue knows
KnownReturned ==
    /\ SeqReturned
    /\ ret.branch = "known"
    /\ ~ret.raised
    /\ ret.books # <<>>

\* C27 (fees are folded in once), the original claim, for the books combo_book
\* returns for a known pair: every level has the price of a level its source
\* venue was fetched, charged the venue's fee at most once; a level of a
\* cross-merged venue or of a join made with add_fees = true is not charged again.
C27_FeesOnce ==
    KnownReturned =>
        \A side \in {"asks", "bids"} : \A l \in Range(Side(ret.books[1], side)) :
            \E raw \in RawLevels(l.exch, side) :
                ChargedAtMostOnce(l.price, raw, side, exchFees(l.exch, ret.want, FALSE))

====
